---- MODULE Spec2Model ----
(***************************************************************************)
(* Call-session state machine of the Buddyku voice webhooks               *)
(* (backend/routers/voice_webhooks.py): the in-memory conversation_states *)
(* map of one worker process, the five Twilio webhook handlers, the       *)
(* dialogue responder and the outbound call to the emergency contact;     *)
(* and of the request that places a call (backend/routers/ai_calling.py). *)
(*                                                                         *)
(* Every handler is an `async def` served by the single-threaded event    *)
(* loop of a UvicornWorker.  Its only suspension point is                 *)
(* `await request.form()`, which precedes every access to                 *)
(* conversation_states; requests.post and the Twilio client are blocking  *)
(* calls.  The body of a handler therefore runs without interleaving      *)
(* inside its process, and each handler is one action here.               *)
(***************************************************************************)
EXTENDS Integers, Sequences, FiniteSets, TLC

VARIABLES
    conversation_states,  \* per worker: the module-level dict call_sid -> ConversationState
    objects,              \* per worker and call_sid: ConversationState objects constructed so far
    dials,                \* calls of TwilioHelper.make_phone_call, in order
    response,             \* what the last handled webhook returned to the carrier
    last,                 \* the last handled webhook: its inputs and what it invoked
    events,               \* number of webhooks handled
    blocked,              \* workers whose event loop sits in a call that never returns
    inflight              \* requests received and not yet answered, in order of arrival

vars == <<conversation_states, objects, dials, response, last, events, blocked, inflight>>

----------------------------------------------------------------------------
(* Bounds and program constants *)

MaxEvents == 3

MaxDialogueEvents == 4

MaxHandoffEvents == 5

MaxCalls == 2

MaxInflight == 2

MaxConcurrentEvents == 3

workers == 2

EscalationThreshold == 2

MinConfidenceNum == 3

MinConfidenceDen == 10

Workers == 1 .. workers

CallSids == {"CA1", "CA2"}

\* Python's None (a missing form field or query parameter)
None == "<None>"

\* the attribute user_id before handle_outbound_call assigns it
Unset == "<unset>"

----------------------------------------------------------------------------
(* Strings as sequences of one-character strings: str.strip, str.lower,    *)
(* the `in` substring test and float() are computed, not assumed.          *)

UpperCase == <<"A","B","C","D","E","F","G","H","I","J","K","L","M",
               "N","O","P","Q","R","S","T","U","V","W","X","Y","Z">>

LowerCase == <<"a","b","c","d","e","f","g","h","i","j","k","l","m",
               "n","o","p","q","r","s","t","u","v","w","x","y","z">>

Whitespace == {" ", "\t", "\n"}

Digits == <<"0","1","2","3","4","5","6","7","8","9">>

lower_char(ch) ==
    IF \E i \in 1 .. Len(UpperCase) : UpperCase[i] = ch
    THEN LowerCase[CHOOSE i \in 1 .. Len(UpperCase) : UpperCase[i] = ch]
    ELSE ch

lower(s) == [i \in 1 .. Len(s) |-> lower_char(s[i])]

strip(s) ==
    LET keep == {i \in 1 .. Len(s) : s[i] \notin Whitespace}
    IN  IF keep = {} THEN <<>>
        ELSE LET first == CHOOSE i \in keep : \A j \in keep : i <= j
                 final == CHOOSE i \in keep : \A j \in keep : j <= i
             IN  SubSeq(s, first, final)

\* Python's `phrase in text`
contains(text, phrase) ==
    \E i \in 0 .. (Len(text) - Len(phrase)) :
        SubSeq(text, i + 1, i + Len(phrase)) = phrase

IsDigit(ch) == \E i \in 1 .. Len(Digits) : Digits[i] = ch

DigitValue(ch) == (CHOOSE i \in 1 .. Len(Digits) : Digits[i] = ch) - 1

RECURSIVE DecimalValue(_)
DecimalValue(ds) ==
    IF ds = <<>> THEN 0
    ELSE 10 * DecimalValue(SubSeq(ds, 1, Len(ds) - 1)) + DigitValue(ds[Len(ds)])

RECURSIVE PowerOfTen(_)
PowerOfTen(n) == IF n = 0 THEN 1 ELSE 10 * PowerOfTen(n - 1)

\* float(s) for plain decimal numerals (digits with at most one point): the
\* exact value num/den; any other text raises ValueError
float(s) ==
    LET points == {i \in 1 .. Len(s) : s[i] = "."}
        digits == {i \in 1 .. Len(s) : IsDigit(s[i])}
        wellformed == /\ digits # {}
                      /\ Cardinality(points) <= 1
                      /\ points \cup digits = 1 .. Len(s)
    IN  IF ~wellformed THEN [ok |-> FALSE, num |-> 0, den |-> 1]
        ELSE LET p == IF points = {} THEN Len(s) + 1 ELSE CHOOSE i \in points : TRUE
                 whole == SubSeq(s, 1, p - 1)
                 frac == SubSeq(s, p + 1, Len(s))
             IN  [ok |-> TRUE,
                  num |-> DecimalValue(whole \o frac),
                  den |-> PowerOfTen(Len(frac))]

\* confidence <= 0.3
below_or_at_threshold(confidence) ==
    confidence.num * MinConfidenceDen <= MinConfidenceNum * confidence.den

\* confidence < 0.3
below_threshold(confidence) ==
    confidence.num * MinConfidenceDen < MinConfidenceNum * confidence.den

----------------------------------------------------------------------------
(* Values that cross the webhook boundary *)

\* a missing form field whose value would be text (a sequence of characters)
NoneSeq == <<None>>

\* form_data.get(key, default) / query_params.get(key, default)
form_get(value, default) == IF value = NoneSeq THEN default ELSE value

query_get(value, default) == IF value = None THEN default ELSE value

\* Python truthiness of an Optional[str]
Truthy(x) == x # None /\ x # ""

\* Python's `x or default`
Or(x, default) == IF Truthy(x) THEN x ELSE default

\* SpeechResult values the carrier delivers
SpeechSad == <<"s","o"," ","s","a","d">>

SpeechBye == <<"O","k",","," ","B","y","e","!">>

SpeechNonstop == <<"n","o","n","s","t","o","p">>

SpeechQuitPadded == <<" ","Q","U","I","T"," ">>

SpeechBlank == <<" "," ">>

SpeechEndCall == <<"E","n","d"," ","C","a","l","l">>

SpeechHangUp == <<"h","a","n","g"," ","u","p">>

SpeechExit == <<"e","x","i","t">>

\* Confidence values the carrier delivers
Conf01 == <<"0",".","1">>

Conf029 == <<"0",".","2","9">>

Conf03 == <<"0",".","3">>

Conf09 == <<"0",".","9">>

ConfGarbled == <<"a","b","c">>

\* (SpeechResult, Confidence) pairs of the turn events delivered
TurnInputs ==
    { <<SpeechSad, Conf09>>, <<SpeechSad, Conf03>>, <<SpeechSad, Conf029>>,
      <<SpeechSad, NoneSeq>>, <<SpeechSad, ConfGarbled>>,
      <<NoneSeq, Conf09>>, <<SpeechBlank, Conf09>>,
      <<SpeechBye, Conf09>>, <<SpeechBye, Conf01>>,
      <<SpeechNonstop, Conf03>>, <<SpeechQuitPadded, Conf09>>,
      <<SpeechEndCall, Conf09>>, <<SpeechHangUp, Conf09>>, <<SpeechExit, Conf09>> }

\* query parameters of the answer webhook (set by whoever placed the call)
AnswerQuery(user_id, mood, custom_prompt, emergency_number, contact_name, name, context) ==
    [user_id |-> user_id, mood |-> mood, custom_prompt |-> custom_prompt,
     emergency_number |-> emergency_number,
     emergency_contact_name |-> contact_name,
     name |-> name, context |-> context]

NoQuery == AnswerQuery(None, None, None, None, None, None, None)

AnswerQueries ==
    { NoQuery,
      AnswerQuery("u1", "sad", None, "+60123456789", "Sam", "Alex", "exam stress"),
      AnswerQuery("u2", "neutral", "be gentle", "", None, None, None),
      AnswerQuery(None, None, None, "+60123456789", None, None, None) }

CallStatuses ==
    {"completed", "busy", "no-answer", "failed", "canceled",
     "ringing", "in-progress", None}

RetryValues == {None, "0", "1"}

\* what the dialogue responder does with one request
ResponderOutcomes ==
    { [kind |-> "text", status_code |-> 200, text |-> <<"I hear you.">>],
      [kind |-> "status", status_code |-> 500, text |-> <<"Internal Server Error">>],
      [kind |-> "raise", status_code |-> 0, text |-> <<>>] }

\* what the Twilio side does with one outbound call attempt
TwilioOutcomes == {"created", "api_error", "not_configured"}

\* requests.post(chat_url, json=payload, timeout=30) against a responder that
\* never answers: requests raises Timeout when the 30 seconds are over
ResponderStalled == [kind |-> "timeout", status_code |-> 0, text |-> <<>>]

\* the outcomes of the POST to /api/chat under a fault
responder_outcomes(fault) ==
    IF fault = "responder_stall" THEN {ResponderStalled} ELSE ResponderOutcomes

\* the outcomes of the attempt to call the emergency contact under a fault:
\* client.calls.create is given no timeout, so a request the Twilio API never
\* answers is never given up ("no_answer")
twilio_outcomes(emergency_contact_number, fault) ==
    IF ~Truthy(emergency_contact_number) THEN {"not_called"}
    ELSE IF fault = "dial_stall" THEN {"no_answer", "not_configured"}
    ELSE TwilioOutcomes

\* what goes wrong while one webhook is handled: "form", the request body
\* cannot be read and `await request.form()` raises; "responder_stall", the
\* dialogue responder never answers the POST; "dial_stall", the Twilio API
\* never answers client.calls.create
Faults == {"none", "form", "responder_stall", "dial_stall"}

----------------------------------------------------------------------------
(* The session record and the store *)

\* a constructor whose counter already counts the greeting
ConversationState_counting_greeting(call_sid, oid) ==
    [call_sid |-> call_sid,
     oid |-> oid,
     message_history |-> <<>>,
     current_mood |-> None,
     risk_score |-> None,
     is_active |-> TRUE,
     ai_response_count |-> 1,
     emergency_contact_number |-> None,
     emergency_contact_name |-> None,
     user_name |-> None,
     context |-> None,
     custom_prompt |-> None,
     user_id |-> Unset]

\* ConversationState.__init__; oid is the identity of the Python object
ConversationState(call_sid, oid) ==
    [call_sid |-> call_sid,
     oid |-> oid,
     message_history |-> <<>>,
     current_mood |-> None,
     risk_score |-> None,
     is_active |-> TRUE,
     ai_response_count |-> 0,
     emergency_contact_number |-> None,
     emergency_contact_name |-> None,
     user_name |-> None,
     context |-> None,
     custom_prompt |-> None,
     user_id |-> Unset]

\* dict without a key (del d[k])
dict_del(d, k) == [c \in (DOMAIN d) \ {k} |-> d[c]]

\* dict with d[k] = v
dict_set(d, k, v) == [c \in (DOMAIN d) \cup {k} |-> IF c = k THEN v ELSE d[c]]

\* a store that constructs a state on every call, present or not
get_or_create_always_new(states, call_sid, oid) ==
    dict_set(states, call_sid, ConversationState(call_sid, oid))

\* the dict after get_or_create_conversation_state(call_sid); the state the
\* call returns is the entry of call_sid in it.  oid names the object that
\* is constructed when the key is absent.
get_or_create_conversation_state(states, call_sid, oid) ==
    IF call_sid \notin DOMAIN states
    THEN dict_set(states, call_sid, ConversationState(call_sid, oid))
    ELSE states

\* an append that skips what the caller said
append_message_drop_user(state, role, content) ==
    IF role = "user" THEN state
    ELSE [state EXCEPT !.message_history =
             Append(@, [role |-> role, content |-> content])]

\* an assignment of a new list
append_message_reset(state, role, content) ==
    [state EXCEPT !.message_history = <<[role |-> role, content |-> content]>>]

\* an insert at the head of the list
append_message_front(state, role, content) ==
    [state EXCEPT !.message_history =
        <<[role |-> role, content |-> content]>> \o @]

\* message_history.append({"role": role, "content": content})
append_message(state, role, content) ==
    [state EXCEPT !.message_history =
        Append(@, [role |-> role, content |-> content])]

----------------------------------------------------------------------------
(* Response documents: a TwiML document is the sequence of its verbs *)

Verb(verb, text, attrs) == [verb |-> verb, text |-> text, attrs |-> attrs]

Say(text) == Verb("Say", text, <<"voice=alice">>)

SayEnUS(text) == Verb("Say", text, <<"voice=alice", "language=en-US">>)

\* Gather(input="speech", action="/voice/webhook/gather", ...)
GatherSpeech ==
    Verb("Gather", <<>>,
         <<"input=speech", "action=/voice/webhook/gather", "method=POST",
           "speechTimeout=auto", "timeout=10", "language=en-US">>)

Redirect(url) == Verb("Redirect", <<url>>, <<>>)

Hangup == Verb("Hangup", <<>>, <<>>)

Play(url) == Verb("Play", <<url>>, <<>>)

Pause(length) == Verb("Pause", <<>>, <<length>>)

\* response.dial().conference(name, start_conference_on_enter=True,
\*                            end_conference_on_exit=False [, wait_url=...])
DialConference(name, extra) ==
    Verb("Dial", name,
         <<"Conference", "startConferenceOnEnter=true",
           "endConferenceOnExit=false">> \o extra)

\* Response(content=str(response), media_type="application/xml")
XmlResponse(twiml) ==
    [status_code |-> 200, media_type |-> "application/xml",
     body |-> "", twiml |-> twiml]

\* Response(content="OK", media_type="text/plain")
PlainResponse(body) ==
    [status_code |-> 200, media_type |-> "text/plain",
     body |-> body, twiml |-> <<>>]

\* nothing is sent: the handler has not returned
NoResponse ==
    [status_code |-> 0, media_type |-> "", body |-> "", twiml |-> <<>>]

\* what the framework sends when an exception leaves a handler
ServerError ==
    [status_code |-> 500, media_type |-> "text/plain",
     body |-> "Internal Server Error", twiml |-> <<>>]

\* f"crisis_support_{call_sid}"
conference_name(call_sid) == <<"crisis_support_", call_sid>>

----------------------------------------------------------------------------
(* The record kept of the last handled webhook *)

Form(speech, confidence, call_status) ==
    [SpeechResult |-> speech, Confidence |-> confidence, CallStatus |-> call_status]

NoForm == Form(NoneSeq, NoneSeq, None)

\* raised: the try block raised; existed: the call had a session in the worker's
\* dict when the webhook arrived; ai_calls: calls of call_ai_chat_api; twilio:
\* what the Twilio side did when the emergency contact was to be called;
\* dial_calls: calls of make_phone_call; ai: what the responder did with the
\* request of call_ai_chat_api; steps: the calls out of the handler and its
\* return, in program order; returned: the handler returned a response
Event(handler, w, call_sid, form, query, fault, existed) ==
    [handler |-> handler, worker |-> w, call_sid |-> call_sid, form |-> form,
     query |-> query, fault |-> fault, raised |-> (fault = "form"),
     existed |-> existed, ai_calls |-> 0, twilio |-> "not_called", dial_calls |-> 0,
     ai |-> "not_called", steps |-> <<"return">>, returned |-> TRUE]

EmptyDict == [c \in {} |-> None]

----------------------------------------------------------------------------
(* POST /voice/webhook/answer *)

\* a selection that looks at the mood before the custom prompt
welcome_message_mood_first(custom_prompt, initial_mood, user_name) ==
    IF Truthy(initial_mood) /\ initial_mood # "neutral"
    THEN <<"Hello ", user_name, "! I'm Ruby, your AI companion. I understand you might be feeling ", initial_mood, " today. I'm here to listen and support you. How are you doing?">>
    ELSE IF Truthy(custom_prompt)
    THEN <<"Hello ", user_name, "! I'm Ruby, your AI companion. I'm here to provide immediate support and listen to you. How are you feeling right now?">>
    ELSE <<"Hello ", user_name, "! I'm Ruby, your AI companion. I'm here to listen and chat with you. How are you feeling today?">>

welcome_message(custom_prompt, initial_mood, user_name) ==
    IF Truthy(custom_prompt)
    THEN <<"Hello ", user_name, "! I'm Ruby, your AI companion. I'm here to provide immediate support and listen to you. How are you feeling right now?">>
    ELSE IF Truthy(initial_mood) /\ initial_mood # "neutral"
    THEN <<"Hello ", user_name, "! I'm Ruby, your AI companion. I understand you might be feeling ", initial_mood, " today. I'm here to listen and support you. How are you doing?">>
    ELSE <<"Hello ", user_name, "! I'm Ruby, your AI companion. I'm here to listen and chat with you. How are you feeling today?">>

answer_document(welcome) ==
    << SayEnUS(welcome),
       GatherSpeech,
       Say(<<"I didn't catch that. Please try speaking again.">>),
       Redirect("/voice/webhook/gather") >>

\* the except branch of handle_outbound_call
answer_error_document ==
    << Say(<<"I'm sorry, there was an error. Please try calling again later.">>) >>

\* what handle_outbound_call returns when its try block raises
answer_except == XmlResponse(answer_error_document)

\* the copy without the emergency contact
set_context_without_contact(state, query) ==
    [state EXCEPT !.current_mood = query.mood,
                  !.user_id = query.user_id,
                  !.user_name = query.name,
                  !.context = query.context,
                  !.custom_prompt = query.custom_prompt]

\* the context fields handle_outbound_call copies from the query parameters
set_context(state, query) ==
    [state EXCEPT !.current_mood = query.mood,
                  !.user_id = query.user_id,
                  !.emergency_contact_number = query.emergency_number,
                  !.emergency_contact_name = query.emergency_contact_name,
                  !.user_name = query.name,
                  !.context = query.context,
                  !.custom_prompt = query.custom_prompt]

handle_outbound_call(w, call_sid, query, fault) ==
    /\ events' = events + 1
    /\ LET states == conversation_states[w]
           existed == call_sid \in DOMAIN states
       IN  IF fault = "form"
           THEN /\ response' = answer_except
                /\ last' = Event("answer", w, call_sid, NoForm, query, fault, existed)
                /\ UNCHANGED <<conversation_states, objects, dials, blocked>>
           ELSE LET created == get_or_create_conversation_state(states, call_sid, objects[w][call_sid] + 1)
                    state == set_context(created[call_sid], query)
                    user_name == Or(state.user_name, "Johnny")
                    welcome == welcome_message(query.custom_prompt, query.mood, user_name)
                    greeted == append_message(state, "assistant", welcome)
                IN  /\ conversation_states' =
                         [conversation_states EXCEPT ![w] = dict_set(created, call_sid, greeted)]
                    /\ objects' = [objects EXCEPT ![w][call_sid] = greeted.oid]
                    /\ response' = XmlResponse(answer_document(welcome))
                    /\ last' = Event("answer", w, call_sid, NoForm, query, fault, existed)
                    /\ UNCHANGED <<dials, blocked>>

----------------------------------------------------------------------------
(* The dialogue responder and the outbound call *)

\* a responder client that hands on whatever body it received
call_ai_chat_api_any_status(outcome) ==
    IF outcome.kind \in {"raise", "timeout"}
    THEN <<"I'm sorry, I'm experiencing technical difficulties. Please try again later.">>
    ELSE outcome.text

\* call_ai_chat_api: the text the turn handler receives for one outcome of
\* the POST to /api/chat
call_ai_chat_api(outcome) ==
    IF outcome.kind \in {"raise", "timeout"}
    THEN <<"I'm sorry, I'm experiencing technical difficulties. Please try again later.">>
    ELSE IF outcome.status_code = 200
    THEN outcome.text
    ELSE <<"I'm sorry, I'm having trouble processing that right now. Could you please try again?">>

\* the query parameters put on the emergency contact's callback URL
emergency_params(state, conference) ==
    [user_name |-> Or(state.user_name, "the user"),
     context |-> Or(state.context, "crisis situation"),
     emergency_contact_name |-> Or(state.emergency_contact_name, "emergency contact"),
     conference_name |-> conference]

\* TwilioHelper.make_phone_call(to_number, twiml_url): the call it records
\* and the dict it returns (client.calls.create succeeds or raises)
make_phone_call(to_number, twiml_url, outcome) ==
    [to |-> to_number, url |-> twiml_url, success |-> (outcome = "created")]

\* the escalation branch without `if state.emergency_contact_number`
emergency_dials_unconditional(state, conference, outcome) ==
    IF outcome # "not_configured"
    THEN << make_phone_call(state.emergency_contact_number,
                            [path |-> "/voice/webhook/emergency-call",
                             params |-> emergency_params(state, conference)],
                            outcome) >>
    ELSE <<>>

\* the calls of make_phone_call the escalation branch makes for a state:
\* none without an emergency number, none when TwilioHelper() raises
emergency_dials(state, conference, outcome) ==
    IF Truthy(state.emergency_contact_number) /\ outcome # "not_configured"
    THEN << make_phone_call(state.emergency_contact_number,
                            [path |-> "/voice/webhook/emergency-call",
                             params |-> emergency_params(state, conference)],
                            outcome) >>
    ELSE <<>>

\* the inner try without its except branch: what TwilioHelper() raises
\* leaves the block
emergency_try_raises_unguarded(outcome) == outcome = "not_configured"

\* does an exception leave the try block around the emergency contact call?
\* `except Exception` catches what TwilioHelper() raises, and make_phone_call
\* catches what client.calls.create raises
emergency_try_raises(outcome) == FALSE

\* the fault a run of handle_speech_input met, read off what its
\* collaborators did
last_fault(ai, twilio) ==
    IF twilio = "no_answer" THEN "dial_stall"
    ELSE IF ai = "timeout" THEN "responder_stall"
    ELSE "none"

\* the calls out of handle_speech_input and its return, in program order
handler_steps(ai, twilio) ==
    (IF ai # "not_called" THEN <<"call_ai_chat_api">> ELSE <<>>)
    \o (IF twilio # "not_called" THEN <<"TwilioHelper">> ELSE <<>>)
    \o (IF twilio \in {"created", "api_error", "no_answer"}
        THEN <<"make_phone_call">> ELSE <<>>)
    \o (IF twilio \in {"created", "api_error"} THEN <<"emergency_result">> ELSE <<>>)
    \o (IF twilio # "no_answer" THEN <<"return">> ELSE <<>>)

----------------------------------------------------------------------------
(* POST /voice/webhook/gather *)

goodbye_phrases ==
    << <<"g","o","o","d","b","y","e">>,
       <<"b","y","e">>,
       <<"e","n","d"," ","c","a","l","l">>,
       <<"h","a","n","g"," ","u","p">>,
       <<"s","t","o","p">>,
       <<"q","u","i","t">>,
       <<"e","x","i","t">> >>

\* the test without .lower()
is_goodbye_case_sensitive(speech_result) ==
    \E i \in 1 .. Len(goodbye_phrases) :
        contains(speech_result, goodbye_phrases[i])

\* any(phrase in speech_result.lower() for phrase in goodbye_phrases)
is_goodbye(speech_result) ==
    \E i \in 1 .. Len(goodbye_phrases) :
        contains(lower(speech_result), goodbye_phrases[i])

\* the test without `not speech_result`
low_confidence_ignores_silence(speech_result, confidence) ==
    below_threshold(confidence)

\* not speech_result or confidence < 0.3
low_confidence(speech_result, confidence) ==
    speech_result = <<>> \/ below_threshold(confidence)

\* the threshold test off by one
should_transfer_late(state) == state.ai_response_count > EscalationThreshold

\* if state.ai_response_count >= 2
should_transfer(state) == state.ai_response_count >= EscalationThreshold

\* a counter that leaves out the turns the responder failed to answer
increment_response_count_on_success(state) ==
    IF state.message_history[Len(state.message_history)].content \in
           { <<"I'm sorry, I'm having trouble processing that right now. Could you please try again?">>,
             <<"I'm sorry, I'm experiencing technical difficulties. Please try again later.">> }
    THEN state
    ELSE [state EXCEPT !.ai_response_count = @ + 1]

\* state.ai_response_count += 1
increment_response_count(state) == [state EXCEPT !.ai_response_count = @ + 1]

clarification_document ==
    << Say(<<"I didn't quite catch that. Could you please speak a bit more clearly?">>),
       GatherSpeech,
       Say(<<"I'm still here if you'd like to try again.">>) >>

goodbye_document ==
    << Say(<<"Thank you for talking with me today. Take care and remember, I'm always here when you need someone to listen. Goodbye!">>),
       Hangup >>

\* a transfer that also goes on listening
transfer_document_and_listen(ai_response, conference) ==
    << SayEnUS(ai_response),
       Say(<<"I'm now connecting you with your emergency contact who can provide additional support.">>),
       DialConference(conference, <<"waitUrl=/voice/webhook/conference-wait">>),
       GatherSpeech >>

transfer_document(ai_response, conference) ==
    << SayEnUS(ai_response),
       Say(<<"I'm now connecting you with your emergency contact who can provide additional support.">>),
       DialConference(conference, <<"waitUrl=/voice/webhook/conference-wait">>) >>

continue_document(ai_response) ==
    << SayEnUS(ai_response),
       GatherSpeech,
       Say(<<"I'm still here if you'd like to continue our conversation.">>),
       Redirect("/voice/webhook/gather") >>

\* the except branch of handle_speech_input
gather_error_document ==
    << Say(<<"I'm sorry, I'm having trouble understanding right now. Let's try again.">>),
       Redirect("/voice/webhook/gather") >>


\* no except branch: the exception reaches the framework
gather_except_propagates == ServerError

\* what handle_speech_input returns when its try block raises
gather_except == XmlResponse(gather_error_document)

\* the end of one run of handle_speech_input: the state it holds goes back
\* into the dict (it is the dict's own object), the calls it made are
\* recorded, the document is returned; a call of make_phone_call that never
\* returns keeps the handler, and the event loop it runs on, from going on
gather_return(w, call_sid, form, states, state, twiml, ai, twilio, new_dials) ==
    /\ conversation_states' =
           [conversation_states EXCEPT ![w] = dict_set(states, call_sid, state)]
    /\ objects' = [objects EXCEPT ![w][call_sid] = state.oid]
    /\ dials' = dials \o new_dials
    /\ response' = IF twilio = "no_answer" THEN NoResponse ELSE XmlResponse(twiml)
    /\ blocked' = IF twilio = "no_answer" THEN blocked \cup {w} ELSE blocked
    /\ last' = [Event("gather", w, call_sid, form, NoQuery, last_fault(ai, twilio),
                      call_sid \in DOMAIN conversation_states[w])
                    EXCEPT !.ai_calls = IF ai = "not_called" THEN 0 ELSE 1,
                           !.ai = ai,
                           !.twilio = twilio,
                           !.dial_calls = Len(new_dials),
                           !.steps = handler_steps(ai, twilio),
                           !.returned = (twilio # "no_answer")]

\* the end of a run whose try block raised after the state was written to
gather_raise(w, call_sid, form, states, state, ai, twilio) ==
    /\ conversation_states' =
           [conversation_states EXCEPT ![w] = dict_set(states, call_sid, state)]
    /\ objects' = [objects EXCEPT ![w][call_sid] = state.oid]
    /\ response' = gather_except
    /\ last' = [Event("gather", w, call_sid, form, NoQuery, "none",
                      call_sid \in DOMAIN conversation_states[w])
                    EXCEPT !.raised = TRUE,
                           !.ai_calls = IF ai = "not_called" THEN 0 ELSE 1,
                           !.ai = ai,
                           !.twilio = twilio]
    /\ UNCHANGED <<dials, blocked>>

handle_speech_input(w, call_sid, form, fault) ==
    /\ events' = events + 1
    /\ LET speech_result == strip(form_get(form.SpeechResult, <<>>))
           confidence == float(form_get(form.Confidence, <<"0">>))
       IN  IF fault = "form" \/ ~confidence.ok
           THEN /\ response' = gather_except
                /\ last' = [Event("gather", w, call_sid, form, NoQuery, fault,
                                  call_sid \in DOMAIN conversation_states[w])
                                EXCEPT !.raised = TRUE]
                /\ UNCHANGED <<conversation_states, objects, dials, blocked>>
           ELSE
           LET states == get_or_create_conversation_state(
                             conversation_states[w], call_sid, objects[w][call_sid] + 1)
               state == states[call_sid]
           IN  IF low_confidence(speech_result, confidence)
               THEN gather_return(w, call_sid, form, states, state,
                                  clarification_document, "not_called", "not_called", <<>>)
               ELSE
               LET heard == append_message(state, "user", speech_result)
               IN  IF is_goodbye(speech_result)
                   THEN gather_return(w, call_sid, form, states, heard,
                                      goodbye_document, "not_called", "not_called", <<>>)
                   ELSE
                   \E ai_outcome \in responder_outcomes(fault) :
                   LET ai_response == call_ai_chat_api(ai_outcome)
                       replied == increment_response_count(
                                      append_message(heard, "assistant", ai_response))
                       conference == conference_name(call_sid)
                   IN  IF should_transfer(replied)
                       THEN \E twilio_outcome \in
                                twilio_outcomes(replied.emergency_contact_number, fault) :
                            IF emergency_try_raises(twilio_outcome)
                            THEN gather_raise(w, call_sid, form, states, replied,
                                              ai_outcome.kind, twilio_outcome)
                            ELSE gather_return(w, call_sid, form, states, replied,
                                     transfer_document(ai_response, conference),
                                     ai_outcome.kind, twilio_outcome,
                                     emergency_dials(replied, conference, twilio_outcome))
                       ELSE gather_return(w, call_sid, form, states, replied,
                                continue_document(ai_response), ai_outcome.kind,
                                "not_called", <<>>)

----------------------------------------------------------------------------
(* POST /voice/webhook/status *)

\* a list that also cleans up on a status of a live call
terminal_statuses_with_in_progress ==
    {"completed", "busy", "no-answer", "failed", "canceled", "in-progress"}

terminal_statuses == {"completed", "busy", "no-answer", "failed", "canceled"}

\* a clean-up that empties the dict (conversation_states.clear())
call_status_cleanup_clears_all(states, call_sid, call_status) ==
    IF call_status \in terminal_statuses /\ call_sid \in DOMAIN states
    THEN EmptyDict
    ELSE states

\* the dict after the clean-up of handle_call_status
call_status_cleanup(states, call_sid, call_status) ==
    IF call_status \in terminal_statuses /\ call_sid \in DOMAIN states
    THEN dict_del(states, call_sid)
    ELSE states

\* what handle_call_status returns when its try block raises
status_except == PlainResponse("OK")

handle_call_status(w, call_sid, call_status, fault) ==
    /\ events' = events + 1
    /\ LET states == conversation_states[w]
           existed == call_sid \in DOMAIN states
       IN  /\ conversation_states' =
                IF fault = "form" THEN conversation_states
                ELSE [conversation_states EXCEPT
                         ![w] = call_status_cleanup(states, call_sid, call_status)]
           /\ response' = IF fault = "form" THEN status_except ELSE PlainResponse("OK")
           /\ last' = Event("status", w, call_sid, Form(NoneSeq, NoneSeq, call_status),
                            NoQuery, fault, existed)
           /\ UNCHANGED <<objects, dials, blocked>>

----------------------------------------------------------------------------
(* POST /voice/webhook/conference-wait *)

conference_wait_document(retry) ==
    IF retry = "0"
    THEN << Say(<<"Please hold while we connect you with your emergency contact.">>),
            Play("https://demo.twilio.com/docs/classic.mp3"),
            Pause("length=10"),
            Say(<<"Connecting you now...">>),
            Redirect("/voice/webhook/conference-wait?retry=1") >>
    ELSE << Say(<<"Please continue to hold.">>),
            Pause("length=20"),
            Say(<<"If your emergency contact doesn't answer, please stay on the line and I'll continue to support you.">>) >>

\* the except branch of handle_conference_wait
conference_wait_error_document ==
    << Say(<<"I'm sorry, there was an error connecting to your emergency contact.">>),
       Hangup >>

\* what handle_conference_wait returns when its try block raises
conference_wait_except == XmlResponse(conference_wait_error_document)

\* a handler that fetches the session of its call as the turn handler does
handle_conference_wait_with_session(w, call_sid, retry, fault) ==
    /\ events' = events + 1
    /\ response' = IF fault = "form"
                   THEN conference_wait_except
                   ELSE XmlResponse(conference_wait_document(query_get(retry, "0")))
    /\ last' = Event("conference-wait", w, call_sid, NoForm, [retry |-> retry], fault,
                     call_sid \in DOMAIN conversation_states[w])
    /\ conversation_states' =
           IF fault = "form" THEN conversation_states
           ELSE [conversation_states EXCEPT
                    ![w] = get_or_create_conversation_state(@, call_sid, objects[w][call_sid] + 1)]
    /\ UNCHANGED <<objects, dials, blocked>>

handle_conference_wait(w, call_sid, retry, fault) ==
    /\ events' = events + 1
    /\ response' = IF fault = "form"
                   THEN conference_wait_except
                   ELSE XmlResponse(conference_wait_document(query_get(retry, "0")))
    /\ last' = Event("conference-wait", w, call_sid, NoForm, [retry |-> retry], fault,
                     call_sid \in DOMAIN conversation_states[w])
    /\ UNCHANGED <<conversation_states, objects, dials, blocked>>

----------------------------------------------------------------------------
(* POST /voice/webhook/emergency-call *)

\* CallSid of the outbound leg to the emergency contact
EmergencySids == {"CAE"}

NoEmergencyQuery ==
    [user_name |-> None, context |-> None, emergency_contact_name |-> None,
     conference_name |-> NoneSeq]

\* the query strings this webhook is requested with: those of the callback
\* URLs handed to the carrier, or none at all
EmergencyQueries ==
    {NoEmergencyQuery} \cup {dials[i].url.params : i \in {j \in 1 .. Len(dials) : dials[j].success}}

\* a handler that ignores the conference_name it is passed
emergency_document_own_sid(call_sid, query) ==
    LET user_name == query_get(query.user_name, "the user")
        context == query_get(query.context, "crisis situation")
        contact == query_get(query.emergency_contact_name, "emergency contact")
    IN  << Say(<<"Hello ", contact, ", this is an emergency call regarding ", user_name,
                 ". They are experiencing a crisis and need immediate support. Context: ",
                 context, ". Please join the conference to speak with them directly.">>),
           DialConference(conference_name(call_sid), <<>>) >>

emergency_document(call_sid, query) ==
    LET user_name == query_get(query.user_name, "the user")
        context == query_get(query.context, "crisis situation")
        contact == query_get(query.emergency_contact_name, "emergency contact")
        conference == form_get(query.conference_name, conference_name(call_sid))
    IN  << Say(<<"Hello ", contact, ", this is an emergency call regarding ", user_name,
                 ". They are experiencing a crisis and need immediate support. Context: ",
                 context, ". Please join the conference to speak with them directly.">>),
           DialConference(conference, <<>>) >>

\* the except branch of handle_emergency_contact_call
emergency_error_document ==
    << Say(<<"I'm sorry, there was an error. Please try calling again later.">>),
       Hangup >>

\* what handle_emergency_contact_call returns when its try block raises
emergency_except == XmlResponse(emergency_error_document)

\* a handler that looks the primary call's session up and fails without it
handle_emergency_contact_call_with_lookup(w, call_sid, query, fault) ==
    LET missing == /\ query.conference_name # NoneSeq
                   /\ query.conference_name[2] \notin DOMAIN conversation_states[w]
    IN  /\ events' = events + 1
        /\ response' = IF fault = "form" \/ missing
                       THEN emergency_except
                       ELSE XmlResponse(emergency_document(call_sid, query))
        /\ last' = [Event("emergency-call", w, call_sid, NoForm, query, fault, FALSE)
                       EXCEPT !.raised = (fault = "form" \/ missing)]
        /\ UNCHANGED <<conversation_states, objects, dials, blocked>>

handle_emergency_contact_call(w, call_sid, query, fault) ==
    /\ events' = events + 1
    /\ response' = IF fault = "form"
                   THEN emergency_except
                   ELSE XmlResponse(emergency_document(call_sid, query))
    /\ last' = Event("emergency-call", w, call_sid, NoForm, query, fault, FALSE)
    /\ UNCHANGED <<conversation_states, objects, dials, blocked>>

----------------------------------------------------------------------------
(* POST /ai-calling/initiate-ai-call *)

\* the JSON body of the request; a key the body lacks is None (NoneSeq for
\* the phone numbers, which are texts the validators read)
AICallRequest(to_number, name, emergency_number, emergency_contact_name, context, custom_prompt, user_id, initial_mood) ==
    [to_number |-> to_number, name |-> name, emergency_number |-> emergency_number,
     emergency_contact_name |-> emergency_contact_name, context |-> context,
     custom_prompt |-> custom_prompt, user_id |-> user_id, initial_mood |-> initial_mood]

PhoneUS == <<"+","1","2","3","4","5","6","7","8","9","0">>

PhoneMY == <<"+","6","0","1","2","3","4","5","6","7","8","9">>

PhoneNoPlus == <<"1","2","3","4","5","6","7","8","9","0">>

PhoneLeadingZero == <<"+","0","1","2","3">>

CallRequests ==
    { AICallRequest(PhoneUS, None, NoneSeq, None, None, None, "user123", None),
      AICallRequest(PhoneUS, None, NoneSeq, None, None, None, "user456", "stressed"),
      AICallRequest(PhoneUS, None, NoneSeq, None, None, "checking in", "user789", None),
      AICallRequest(PhoneUS, "Alex", PhoneMY, "Sam", "exam stress", "be gentle", "u1", "sad"),
      AICallRequest(PhoneUS, "Alex", PhoneMY, "Sam", "exam stress", "be gentle", "u1", None),
      AICallRequest(PhoneUS, "", PhoneMY, "", "", "", "", None),
      AICallRequest(PhoneNoPlus, "Alex", PhoneMY, "Sam", "exam stress", "be gentle", "u1", "sad"),
      AICallRequest(PhoneUS, "Alex", PhoneLeadingZero, "Sam", "exam stress", "be gentle", "u1", "sad"),
      AICallRequest(NoneSeq, "Alex", PhoneMY, "Sam", "exam stress", "be gentle", "u1", "sad") }

\* what the Twilio side does while one request is handled
CallingFaults == {"none", "twilio_error", "twilio_not_configured"}

\* re.match(r'^\+[1-9]\d{1,14}$', v); `$` also matches before a final newline
is_e164(v) ==
    LET core == IF v # <<>> /\ v[Len(v)] = "\n" THEN SubSeq(v, 1, Len(v) - 1) ELSE v
    IN  /\ Len(core) >= 3
        /\ Len(core) <= 16
        /\ core[1] = "+"
        /\ IsDigit(core[2])
        /\ core[2] # "0"
        /\ \A i \in 3 .. Len(core) : IsDigit(core[i])

\* validation of the body against AICallRequest: seven required str fields,
\* initial_mood optional, both numbers in E.164 format
request_is_valid(request) ==
    /\ request.to_number # NoneSeq
    /\ request.name # None
    /\ request.emergency_number # NoneSeq
    /\ request.emergency_contact_name # None
    /\ request.context # None
    /\ request.custom_prompt # None
    /\ request.user_id # None
    /\ is_e164(request.to_number)
    /\ is_e164(request.emergency_number)

\* the query parameters initiate_ai_call puts on the answer webhook URL
webhook_params(request) ==
    LET present(x) == IF Truthy(x) THEN x ELSE None
        number == IF request.emergency_number \in {NoneSeq, <<>>}
                  THEN NoneSeq ELSE request.emergency_number
        any == \/ Truthy(request.initial_mood)
               \/ Truthy(request.custom_prompt)
               \/ Truthy(request.name)
               \/ number # NoneSeq
               \/ Truthy(request.emergency_contact_name)
               \/ Truthy(request.context)
    IN  IF any
        THEN [user_id |-> present(request.user_id), mood |-> present(request.initial_mood),
              custom_prompt |-> present(request.custom_prompt),
              emergency_number |-> number,
              emergency_contact_name |-> present(request.emergency_contact_name),
              name |-> present(request.name), context |-> present(request.context)]
        ELSE [user_id |-> None, mood |-> None, custom_prompt |-> None,
              emergency_number |-> NoneSeq, emergency_contact_name |-> None,
              name |-> None, context |-> None]

\* a JSON response of the framework or of the handler
JsonResponse(status_code, body) ==
    [status_code |-> status_code, media_type |-> "application/json",
     body |-> body, twiml |-> <<>>]

\* the dependency get_twilio_helper is resolved first (500 when TwilioHelper()
\* raises), then the body is validated (422), then the handler runs: a call
\* Twilio accepts gives 200 with the call_sid; one it refuses makes the
\* handler raise HTTPException(400) inside its own try, whose
\* `except Exception` turns it into HTTPException(500)
initiate_ai_call(w, request, fault) ==
    /\ events' = events + 1
    /\ LET event == Event("initiate-ai-call", w, None, NoForm, request, fault, FALSE)
       IN  IF fault = "twilio_not_configured"
           THEN /\ response' = JsonResponse(500, "detail: Twilio configuration error")
                /\ last' = [event EXCEPT !.twilio = "not_configured"]
                /\ UNCHANGED dials
           ELSE IF ~request_is_valid(request)
           THEN /\ response' = JsonResponse(422, "detail: validation error")
                /\ last' = event
                /\ UNCHANGED dials
           ELSE LET outcome == IF fault = "twilio_error" THEN "api_error" ELSE "created"
                    result == make_phone_call(request.to_number,
                                  [path |-> "/voice/webhook/answer",
                                   params |-> webhook_params(request)],
                                  outcome)
                IN  /\ dials' = Append(dials, result)
                    /\ response' = IF result.success
                                   THEN JsonResponse(200, "success: true, call_sid")
                                   ELSE JsonResponse(500, "detail: Failed to initiate outbound AI call")
                    /\ last' = [event EXCEPT !.twilio = outcome, !.dial_calls = 1,
                                             !.raised = ~result.success]
    /\ UNCHANGED <<conversation_states, objects, blocked>>

----------------------------------------------------------------------------
(* The answer webhook URL: urlencode on the calling side, query_params on  *)
(* the answering side                                                      *)

\* the str values of the requests and their characters
TextTable ==
    << <<"", <<>> >>,
       <<"Alex", <<"A","l","e","x">> >>,
       <<"Sam", <<"S","a","m">> >>,
       <<"Al & Bo", <<"A","l"," ","&"," ","B","o">> >>,
       <<"exam stress", <<"e","x","a","m"," ","s","t","r","e","s","s">> >>,
       <<"50% + more=?", <<"5","0","%"," ","+"," ","m","o","r","e","=","?">> >>,
       <<"be gentle", <<"b","e"," ","g","e","n","t","l","e">> >>,
       <<"checking in", <<"c","h","e","c","k","i","n","g"," ","i","n">> >>,
       <<"sad", <<"s","a","d">> >>,
       <<"stressed", <<"s","t","r","e","s","s","e","d">> >>,
       <<"u1", <<"u","1">> >>,
       <<"user123", <<"u","s","e","r","1","2","3">> >>,
       <<"user456", <<"u","s","e","r","4","5","6">> >>,
       <<"user789", <<"u","s","e","r","7","8","9">> >>,
       <<"+60123456789", <<"+","6","0","1","2","3","4","5","6","7","8","9">> >>,
       <<"+1234567890", <<"+","1","2","3","4","5","6","7","8","9","0">> >>,
       <<"+0123", <<"+","0","1","2","3">> >>,
       <<"1234567890", <<"1","2","3","4","5","6","7","8","9","0">> >> >>

\* the characters of a str
chars_of(value) ==
    TextTable[CHOOSE i \in 1 .. Len(TextTable) : TextTable[i][1] = value][2]

\* the str with the given characters
str_of(cs) ==
    IF \E i \in 1 .. Len(TextTable) : TextTable[i][2] = cs
    THEN TextTable[CHOOSE i \in 1 .. Len(TextTable) : TextTable[i][2] = cs][1]
    ELSE "<other text>"

\* the characters quote_plus leaves as they are
IsSafe(ch) ==
    \/ IsDigit(ch)
    \/ \E i \in 1 .. Len(UpperCase) : UpperCase[i] = ch \/ LowerCase[i] = ch
    \/ ch \in {"_", ".", "-", "~"}

\* the percent escapes of the other ASCII characters met here
PercentCodes ==
    << <<"!", <<"2","1">> >>, <<"%", <<"2","5">> >>, <<"&", <<"2","6">> >>,
       <<"'", <<"2","7">> >>, <<"+", <<"2","B">> >>, <<",", <<"2","C">> >>,
       <<"=", <<"3","D">> >>, <<"?", <<"3","F">> >> >>

percent_code(ch) ==
    PercentCodes[CHOOSE i \in 1 .. Len(PercentCodes) : PercentCodes[i][1] = ch][2]

\* a quoting that escapes nothing
RECURSIVE quote_plus_unescaped(_)
quote_plus_unescaped(s) ==
    IF s = <<>> THEN <<>>
    ELSE <<Head(s)>> \o quote_plus_unescaped(Tail(s))

\* urllib.parse.quote_plus: a space becomes "+", a safe character stays,
\* any other is percent-escaped
RECURSIVE quote_plus(_)
quote_plus(s) ==
    IF s = <<>> THEN <<>>
    ELSE (IF Head(s) = " " THEN <<"+">>
          ELSE IF IsSafe(Head(s)) THEN <<Head(s)>>
          ELSE <<"%">> \o percent_code(Head(s)))
         \o quote_plus(Tail(s))

\* urllib.parse.urlencode(params): key=value joined by "&", in the order of
\* insertion; a key, an identifier, is kept as one token
RECURSIVE urlencode(_)
urlencode(pairs) ==
    IF pairs = <<>> THEN <<>>
    ELSE <<pairs[1][1], "=">> \o quote_plus(pairs[1][2])
         \o (IF Len(pairs) > 1 THEN <<"&">> ELSE <<>>)
         \o urlencode(Tail(pairs))

\* the dict `params` initiate_ai_call fills, as (key, characters) pairs in
\* the order of its assignments
param_pairs(params) ==
    LET param(key, value) == IF value = None THEN <<>> ELSE << <<key, chars_of(value)>> >>
    IN  param("user_id", params.user_id)
        \o param("mood", params.mood)
        \o param("custom_prompt", params.custom_prompt)
        \o param("name", params.name)
        \o (IF params.emergency_number = NoneSeq THEN <<>>
            ELSE << <<"emergency_number", params.emergency_number>> >>)
        \o param("emergency_contact_name", params.emergency_contact_name)
        \o param("context", params.context)

\* what follows "?" in webhook_url (nothing follows when params is empty)
webhook_query_string(params) == urlencode(param_pairs(params))

\* str.split(sep)
RECURSIVE split(_, _)
split(s, sep) ==
    IF \E i \in 1 .. Len(s) : s[i] = sep
    THEN LET i == CHOOSE i \in 1 .. Len(s) : s[i] = sep /\ \A j \in 1 .. (i - 1) : s[j] # sep
         IN  <<SubSeq(s, 1, i - 1)>> \o split(SubSeq(s, i + 1, Len(s)), sep)
    ELSE <<s>>

percent_char(code) ==
    PercentCodes[CHOOSE i \in 1 .. Len(PercentCodes) : PercentCodes[i][2] = code][1]

\* urllib.parse.unquote: %XX back to its character
RECURSIVE unquote(_)
unquote(s) ==
    IF s = <<>> THEN <<>>
    ELSE IF /\ s[1] = "%"
            /\ Len(s) >= 3
            /\ \E i \in 1 .. Len(PercentCodes) : PercentCodes[i][2] = <<s[2], s[3]>>
    THEN <<percent_char(<<s[2], s[3]>>)>> \o unquote(SubSeq(s, 4, Len(s)))
    ELSE <<s[1]>> \o unquote(Tail(s))

\* urllib.parse.unquote_plus: "+" back to a space, then unquote
unquote_plus(s) == unquote([i \in 1 .. Len(s) |-> IF s[i] = "+" THEN " " ELSE s[i]])

\* urllib.parse.parse_qsl(query, keep_blank_values=True), as starlette's
\* QueryParams calls it: the (name, value) pairs of the query string
parse_qsl(qs) ==
    LET fields == split(qs, "&")
        named == {i \in 1 .. Len(fields) : fields[i] # <<>>}
        field(i) == LET parts == split(fields[i], "=")
                        rest == SubSeq(fields[i], Len(parts[1]) + 2, Len(fields[i]))
                    IN  <<unquote_plus(parts[1]), unquote_plus(rest)>>
    IN  [i \in named |-> field(i)]

\* request.query_params.get(key): the value of the first pair named key
query_params_get(qs, key) ==
    LET parsed == parse_qsl(qs)
        hits == {i \in DOMAIN parsed : parsed[i][1] = <<key>>}
    IN  IF hits = {} THEN None
        ELSE str_of(parsed[CHOOSE i \in hits : \A j \in hits : i <= j][2])

\* the query parameters handle_outbound_call reads off the URL
query_params(qs) ==
    AnswerQuery(query_params_get(qs, "user_id"),
                query_params_get(qs, "mood"),
                query_params_get(qs, "custom_prompt"),
                query_params_get(qs, "emergency_number"),
                query_params_get(qs, "emergency_contact_name"),
                query_params_get(qs, "name"),
                query_params_get(qs, "context"))

\* requests that place calls: those of CallRequests and one whose texts have
\* characters the URL must escape
PlacedRequests ==
    CallRequests \cup
        { AICallRequest(PhoneUS, "Al & Bo", PhoneMY, "Sam", "50% + more=?", "be gentle", "u1", "sad") }

\* the carrier answers the call placed last: it POSTs to the URL given to
\* client.calls.create, query string included
answer_placed_call(w, call_sid) ==
    /\ dials # <<>>
    /\ LET placed == dials[Len(dials)]
       IN  /\ placed.success
           /\ placed.url.path = "/voice/webhook/answer"
           /\ handle_outbound_call(w, call_sid,
                  query_params(webhook_query_string(placed.url.params)), "none")

----------------------------------------------------------------------------
(* POST /phone/call and GET /phone/call/{call_sid}/status *)

\* the JSON body of POST /phone/call; twiml_url has a default
PhoneCallRequest(to_number, twiml_url) ==
    [to_number |-> to_number,
     twiml_url |-> query_get(twiml_url, "http://demo.twilio.com/docs/voice.xml")]

PhoneCallRequests ==
    { PhoneCallRequest(PhoneUS, None),
      PhoneCallRequest(PhoneMY, "https://example.org/twiml"),
      PhoneCallRequest(PhoneNoPlus, None),
      PhoneCallRequest(NoneSeq, None) }

\* the route make_phone_call of the phone router: the dependency first (500
\* when TwilioHelper() raises), then validation of the body (422), then the
\* handler; HTTPException(400), raised inside the handler's own try for a
\* call Twilio refuses, is caught by its `except Exception` and replaced by
\* HTTPException(500)
phone_make_phone_call(w, request, fault) ==
    /\ events' = events + 1
    /\ LET event == Event("phone-call", w, None, NoForm, request, fault, FALSE)
       IN  IF fault = "twilio_not_configured"
           THEN /\ response' = JsonResponse(500, "detail: Twilio configuration error")
                /\ last' = [event EXCEPT !.twilio = "not_configured"]
                /\ UNCHANGED dials
           ELSE IF request.to_number = NoneSeq \/ ~is_e164(request.to_number)
           THEN /\ response' = JsonResponse(422, "detail: validation error")
                /\ last' = event
                /\ UNCHANGED dials
           ELSE LET outcome == IF fault = "twilio_error" THEN "api_error" ELSE "created"
                    result == make_phone_call(request.to_number,
                                  [path |-> request.twiml_url, params |-> NoQuery],
                                  outcome)
                IN  /\ dials' = Append(dials, result)
                    /\ response' = IF result.success
                                   THEN JsonResponse(200, "success: true, call_sid")
                                   ELSE JsonResponse(500, "detail: Failed to make phone call")
                    /\ last' = [event EXCEPT !.twilio = outcome, !.dial_calls = 1,
                                             !.raised = ~result.success]
    /\ UNCHANGED <<conversation_states, objects, blocked>>

\* the route get_call_status: TwilioHelper.get_call_status returns success
\* False when client.calls(call_sid).fetch() raises; the HTTPException(404)
\* raised for it inside the try is caught and replaced by HTTPException(500)
get_call_status(w, call_sid, fault) ==
    /\ events' = events + 1
    /\ LET event == Event("call-status", w, call_sid, NoForm, NoQuery, fault, FALSE)
       IN  IF fault = "twilio_not_configured"
           THEN /\ response' = JsonResponse(500, "detail: Twilio configuration error")
                /\ last' = [event EXCEPT !.twilio = "not_configured"]
           ELSE IF fault = "twilio_error"
           THEN /\ response' = JsonResponse(500, "detail: Failed to get call status")
                /\ last' = [event EXCEPT !.twilio = "api_error", !.raised = TRUE]
           ELSE /\ response' = JsonResponse(200, "success: true, status")
                /\ last' = [event EXCEPT !.twilio = "fetched"]
    /\ UNCHANGED <<conversation_states, objects, dials, blocked>>

----------------------------------------------------------------------------
(* The specification *)

NoEvent == Event("none", 1, None, NoForm, NoQuery, "none", FALSE)

Init ==
    /\ conversation_states = [w \in Workers |-> EmptyDict]
    /\ objects = [w \in Workers |-> [c \in CallSids |-> 0]]
    /\ dials = <<>>
    /\ response = PlainResponse("")
    /\ last = NoEvent
    /\ events = 0
    /\ blocked = {}
    /\ inflight = <<>>

\* the requests of each kind for the calls C: readable ones, and one whose
\* body cannot be read (its CallSid, a form field, is then unknown to the handler)
AnswerRequests(C) ==
    {[call_sid |-> c, query |-> q, fault |-> "none"] : c \in C, q \in AnswerQueries}
        \cup {[call_sid |-> None, query |-> NoQuery, fault |-> "form"]}

TurnRequests(C) ==
    {[call_sid |-> c, form |-> Form(t[1], t[2], None), fault |-> "none"] :
        c \in C, t \in TurnInputs}
        \cup {[call_sid |-> None, form |-> NoForm, fault |-> "form"]}

StatusRequests(C) ==
    {[call_sid |-> c, call_status |-> s, fault |-> "none"] : c \in C, s \in CallStatuses}
        \cup {[call_sid |-> None, call_status |-> None, fault |-> "form"]}

WaitRequests(C) ==
    {[call_sid |-> c, retry |-> r, fault |-> "none"] : c \in C, r \in RetryValues}
        \cup {[call_sid |-> None, retry |-> None, fault |-> "form"]}

EmergencyRequests ==
    {[call_sid |-> c, query |-> q, fault |-> "none"] : c \in EmergencySids, q \in EmergencyQueries}
        \cup {[call_sid |-> None, query |-> NoEmergencyQuery, fault |-> "form"]}

\* the worker processes W serve at most n webhooks, all about the calls C
Deliver(W, C, n) ==
    \/ \E w \in W, rq \in AnswerRequests(C) :
          events < n /\ w \notin blocked /\ UNCHANGED inflight /\ handle_outbound_call(w, rq.call_sid, rq.query, rq.fault)
    \/ \E w \in W, rq \in TurnRequests(C) :
          events < n /\ w \notin blocked /\ UNCHANGED inflight /\ handle_speech_input(w, rq.call_sid, rq.form, rq.fault)
    \/ \E w \in W, rq \in StatusRequests(C) :
          events < n /\ w \notin blocked /\ UNCHANGED inflight /\ handle_call_status(w, rq.call_sid, rq.call_status, rq.fault)
    \/ \E w \in W, rq \in WaitRequests(C) :
          events < n /\ w \notin blocked /\ UNCHANGED inflight /\ handle_conference_wait(w, rq.call_sid, rq.retry, rq.fault)
    \/ \E w \in W, rq \in EmergencyRequests :
          events < n /\ w \notin blocked /\ UNCHANGED inflight /\ handle_emergency_contact_call(w, rq.call_sid, rq.query, rq.fault)

\* one worker process: the in-memory map is private to a process
OneProcess == {1}

Next == Deliver(OneProcess, CallSids, MaxEvents)

Spec == Init /\ [][Next]_vars

\* a single call followed for a longer dialogue
OneCall == {"CA1"}

NextOneCall == Deliver(OneProcess, OneCall, MaxDialogueEvents)

SpecOneCall == Init /\ [][NextOneCall]_vars

\* the hand-off followed to its end: one call placed with an emergency
\* contact, its turns, its status events, the conference wait and the
\* emergency contact's leg; F is the set of faults its turns may meet
HandoffQueries ==
    { AnswerQuery("u1", "sad", None, "+60123456789", "Sam", "Alex", "exam stress") }

HandoffTurns == { <<SpeechSad, Conf09>>, <<SpeechBye, Conf09>> }

HandoffStatuses == {"completed", "in-progress"}

Handoff(W, C, F, n) ==
    \/ \E w \in W, c \in C, q \in HandoffQueries :
          events < n /\ w \notin blocked /\ UNCHANGED inflight /\ handle_outbound_call(w, c, q, "none")
    \/ \E w \in W, c \in C, t \in HandoffTurns, f \in F :
          events < n /\ w \notin blocked /\ UNCHANGED inflight
              /\ handle_speech_input(w, c, Form(t[1], t[2], None), f)
    \/ \E w \in W, c \in C, st \in HandoffStatuses :
          events < n /\ w \notin blocked /\ UNCHANGED inflight /\ handle_call_status(w, c, st, "none")
    \/ \E w \in W, c \in C :
          events < n /\ w \notin blocked /\ UNCHANGED inflight /\ handle_conference_wait(w, c, None, "none")
    \/ \E w \in W, rq \in EmergencyRequests :
          events < n /\ w \notin blocked /\ UNCHANGED inflight
              /\ handle_emergency_contact_call(w, rq.call_sid, rq.query, rq.fault)

NextHandoff == Handoff(OneProcess, OneCall, {"none"}, MaxHandoffEvents)

SpecHandoff == Init /\ [][NextHandoff]_vars

\* the same, the responder or the Twilio API never answering some requests
NextStalled ==
    Handoff(OneProcess, OneCall, {"none", "responder_stall", "dial_stall"}, MaxHandoffEvents)

SpecStalled == Init /\ [][NextStalled]_vars

\* the calling API alone: calls are asked for, Twilio accepting them or not
NextCalling ==
    \E w \in OneProcess, rq \in CallRequests, f \in CallingFaults :
        events < MaxCalls /\ w \notin blocked /\ UNCHANGED inflight /\ initiate_ai_call(w, rq, f)

SpecCalling == Init /\ [][NextCalling]_vars

\* requests in flight.  A request is received (Arrive) and waits at
\* `await request.form()`; the body of its handler then runs on the worker's
\* event loop.  A turn that gets as far as call_ai_chat_api sits in the
\* blocking requests.post (Enter) until the responder has answered (Finish);
\* as the call is synchronous inside the coroutine, the event loop runs
\* nothing else meanwhile.  What the handler wrote before the call is seen by
\* nobody until it returns, so its effects are applied at Finish.
Request(kind, call_sid, form, query) ==
    [kind |-> kind, call_sid |-> call_sid, form |-> form, query |-> query]

ConcurrentRequests(C) ==
    {Request("answer", c, NoForm, q) : c \in C, q \in HandoffQueries}
        \cup {Request("gather", c, Form(t[1], t[2], None), NoQuery) : c \in C, t \in HandoffTurns}
        \cup {Request("status", c, Form(NoneSeq, NoneSeq, st), NoQuery) : c \in C, st \in HandoffStatuses}

\* does the handler of the request reach call_ai_chat_api?
calls_responder(rq) ==
    /\ rq.kind = "gather"
    /\ LET speech_result == strip(form_get(rq.form.SpeechResult, <<>>))
           confidence == float(form_get(rq.form.Confidence, <<"0">>))
       IN  /\ confidence.ok
           /\ ~low_confidence(speech_result, confidence)
           /\ ~is_goodbye(speech_result)

\* the event loop of worker w is inside a blocking call
Busy(w) ==
    \/ w \in blocked
    \/ \E i \in 1 .. Len(inflight) :
          inflight[i].worker = w /\ inflight[i].stage = "responder"

RemoveAt(seq, i) == SubSeq(seq, 1, i - 1) \o SubSeq(seq, i + 1, Len(seq))

Arrive(w, rq, n) ==
    /\ events + Len(inflight) < n
    /\ Len(inflight) < MaxInflight
    /\ inflight' = Append(inflight, [worker |-> w, request |-> rq, stage |-> "form",
                                     arrived |-> events])
    /\ UNCHANGED <<conversation_states, objects, dials, response, last, events, blocked>>

Enter(i) ==
    /\ inflight[i].stage = "form"
    /\ ~Busy(inflight[i].worker)
    /\ calls_responder(inflight[i].request)
    /\ inflight' = [inflight EXCEPT ![i].stage = "responder"]
    /\ UNCHANGED <<conversation_states, objects, dials, response, last, events, blocked>>

Finish(i) ==
    LET w == inflight[i].worker
        rq == inflight[i].request
    IN  /\ IF calls_responder(rq)
           THEN inflight[i].stage = "responder"
           ELSE inflight[i].stage = "form" /\ ~Busy(w)
        /\ inflight' = RemoveAt(inflight, i)
        /\ \/ rq.kind = "answer" /\ handle_outbound_call(w, rq.call_sid, rq.query, "none")
           \/ rq.kind = "gather" /\ handle_speech_input(w, rq.call_sid, rq.form, "none")
           \/ rq.kind = "status"
                 /\ handle_call_status(w, rq.call_sid, rq.form.CallStatus, "none")

NextConcurrent ==
    \/ \E w \in OneProcess, rq \in ConcurrentRequests(CallSids) :
          Arrive(w, rq, MaxConcurrentEvents)
    \/ \E i \in 1 .. Len(inflight) : Enter(i)
    \/ \E i \in 1 .. Len(inflight) : Finish(i)

SpecConcurrent == Init /\ [][NextConcurrent]_vars

\* the deployment of gunicorn.conf.py: `workers` processes behind one
\* listening socket, each with its own conversation_states; a webhook is
\* handled by whichever process accepts its connection
MaxDeployedEvents == 3

NextDeployed == Handoff(Workers, OneCall, {"none"}, MaxDeployedEvents)

SpecDeployed == Init /\ [][NextDeployed]_vars


\* calls placed through the calling API and answered: the context of the
\* request travels in the query string of the answer webhook URL
MaxPlacedEvents == 3

NextPlaced ==
    \/ \E w \in OneProcess, rq \in PlacedRequests, f \in CallingFaults :
          events < MaxPlacedEvents /\ w \notin blocked /\ UNCHANGED inflight
              /\ initiate_ai_call(w, rq, f)
    \/ \E w \in OneProcess, c \in CallSids :
          events < MaxPlacedEvents /\ w \notin blocked /\ UNCHANGED inflight
              /\ answer_placed_call(w, c)

SpecPlaced == Init /\ [][NextPlaced]_vars

\* the three routes that report what Twilio did with a request
MaxPhoneEvents == 2

NextPhone ==
    \/ \E w \in OneProcess, rq \in CallRequests, f \in CallingFaults :
          events < MaxPhoneEvents /\ w \notin blocked /\ UNCHANGED inflight
              /\ initiate_ai_call(w, rq, f)
    \/ \E w \in OneProcess, rq \in PhoneCallRequests, f \in CallingFaults :
          events < MaxPhoneEvents /\ w \notin blocked /\ UNCHANGED inflight
              /\ phone_make_phone_call(w, rq, f)
    \/ \E w \in OneProcess, c \in CallSids, f \in CallingFaults :
          events < MaxPhoneEvents /\ w \notin blocked /\ UNCHANGED inflight
              /\ get_call_status(w, c, f)

SpecPhone == Init /\ [][NextPhone]_vars

\* answer events alone, over every combination of custom prompt, mood and name
GreetingQueries ==
    { AnswerQuery("u1", mood, custom_prompt, None, None, name, None) :
        mood \in {None, "", "neutral", "sad"},
        custom_prompt \in {None, "", "be gentle"},
        name \in {None, "", "Alex"} }

MaxGreetingEvents == 2

NextGreeting ==
    \E w \in OneProcess, c \in CallSids, q \in GreetingQueries, f \in {"none", "form"} :
        events < MaxGreetingEvents /\ w \notin blocked /\ UNCHANGED inflight
            /\ handle_outbound_call(w, c, q, f)

SpecGreeting == Init /\ [][NextGreeting]_vars

----------------------------------------------------------------------------
(* Properties *)

\* the turn events by the class the specification puts them in
PlainTurns == {Form(SpeechSad, Conf09, None), Form(SpeechSad, Conf03, None)}

GoodbyeTurns ==
    {Form(SpeechBye, Conf09, None), Form(SpeechNonstop, Conf03, None),
     Form(SpeechQuitPadded, Conf09, None), Form(SpeechEndCall, Conf09, None),
     Form(SpeechHangUp, Conf09, None), Form(SpeechExit, Conf09, None)}

RejectedTurns ==
    {Form(SpeechSad, Conf029, None), Form(SpeechSad, NoneSeq, None),
     Form(NoneSeq, Conf09, None), Form(SpeechBlank, Conf09, None),
     Form(SpeechBye, Conf01, None)}

HasVerb(doc, verb) == \E i \in 1 .. Len(doc) : doc[i].verb = verb

\* the listen directive: a Gather whose action is the turn webhook
IsListen(d) ==
    d.verb = "Gather" /\ \E i \in 1 .. Len(d.attrs) : d.attrs[i] = "action=/voice/webhook/gather"

\* the dial-conference directive for a conference name
IsConference(d, name) ==
    d.verb = "Dial" /\ d.text = name /\ d.attrs[1] = "Conference"

\* a turn event that was read and handled for call c
TurnOf(e, c, forms) ==
    e.handler = "gather" /\ e.call_sid = c /\ ~e.raised /\ e.form \in forms

\* the calls of make_phone_call whose callback joins the conference of call c
DialsFor(c) ==
    {i \in 1 .. Len(dials) : dials[i].url.params.conference_name = conference_name(c)}

\* C1: over any sequence of turn events of a call, make_phone_call is invoked
\* at most once for the call, so its conference gets at most one
\* emergency-contact leg.
C1_DialAtMostOnce == \A c \in CallSids : Cardinality(DialsFor(c)) <= 1

\* C2 as stated: on a session with ai_response_count 0 an accepted non-goodbye
\* turn returns the reply and a listen directive and no conference; with
\* ai_response_count 1 it returns the hand-off line and the dial-conference
\* directive and, when the session has an emergency number, one outbound call
\* is made whose callback URL carries crisis_support_<callId>.
C2_FirstContinues(c) ==
    LET doc == response'.twiml
        history == conversation_states'[1][c].message_history
    IN  /\ doc[1].verb = "Say"
        /\ doc[1].text = history[Len(history)].content
        /\ history[Len(history)].role = "assistant"
        /\ IsListen(doc[2])
        /\ ~HasVerb(doc, "Dial")
        /\ dials' = dials

C2_SecondTransfers(c) ==
    LET doc == response'.twiml
    IN  /\ Len(doc) = 3
        /\ doc[2] = Say(<<"I'm now connecting you with your emergency contact who can provide additional support.">>)
        /\ IsConference(doc[3], <<"crisis_support_", c>>)
        /\ ~HasVerb(doc, "Gather")

C2_DialInitiated(c) ==
    /\ Len(dials') = Len(dials) + 1
    /\ dials'[Len(dials')].to = conversation_states[1][c].emergency_contact_number
    /\ dials'[Len(dials')].url.path = "/voice/webhook/emergency-call"
    /\ dials'[Len(dials')].url.params.conference_name = <<"crisis_support_", c>>

C2_Step(c, configured) ==
    (c \in DOMAIN conversation_states[1] /\ TurnOf(last', c, PlainTurns)) =>
        LET state == conversation_states[1][c]
        IN  /\ state.ai_response_count = 0 => C2_FirstContinues(c)
            /\ state.ai_response_count = 1 =>
                  /\ C2_SecondTransfers(c)
                  /\ (Truthy(state.emergency_contact_number) /\ configured)
                        => C2_DialInitiated(c)
                  /\ ~Truthy(state.emergency_contact_number) => dials' = dials

C3_AlwaysResponds ==
    last.handler # "none" =>
        /\ response.status_code = 200
        /\ IF last.handler = "status"
           THEN response.media_type = "text/plain" /\ response.body = "OK"
           ELSE /\ response.media_type = "application/xml"
                /\ Len(response.twiml) >= 1
                /\ response.twiml[1].verb = "Say"

C3_Witness ==
    /\ last.handler = "gather"
    /\ last.raised
    /\ last.fault = "none"
    /\ response.twiml[1].verb = "Say"

\* C4: when a document-returning handler raises, the document is a spoken
\* apology followed by a redirect to the gather action or by a hangup, never
\* the spoken line alone.
C4_ApologyThenRetryOrHangup ==
    (last.raised /\ last.handler \in {"answer", "gather", "conference-wait", "emergency-call"}) =>
        LET doc == response.twiml
        IN  /\ Len(doc) >= 2
            /\ doc[1].verb = "Say"
            /\ \/ doc[Len(doc)] = Redirect("/voice/webhook/gather")
               \/ doc[Len(doc)].verb = "Hangup"

\* C5: a turn with empty (trimmed) speech or confidence below 0.3, delivered
\* for an existing session, changes nothing in the store, calls neither the
\* responder nor make_phone_call, and returns a clarification line followed by
\* a listen directive.
C5_RejectedTurnInert ==
    [][\A c \in CallSids :
          (c \in DOMAIN conversation_states[1] /\ TurnOf(last', c, RejectedTurns)) =>
              /\ conversation_states' = conversation_states
              /\ objects' = objects
              /\ dials' = dials
              /\ last'.ai_calls = 0
              /\ last'.dial_calls = 0
              /\ response'.twiml[1] =
                     Say(<<"I didn't quite catch that. Could you please speak a bit more clearly?">>)
              /\ IsListen(response'.twiml[2])
              /\ ~HasVerb(response'.twiml, "Dial")
              /\ ~HasVerb(response'.twiml, "Hangup")]_vars

C5_Witness ==
    \E c \in CallSids :
        /\ TurnOf(last, c, RejectedTurns)
        /\ last.existed
        /\ conversation_states[1][c].ai_response_count = 1
        /\ IsListen(response.twiml[2])

\* C6: an accepted turn whose lower-cased text contains a goodbye phrase
\* returns the closing line followed by hangup, with no listen and no
\* conference directive, whatever was accepted before and also when the event
\* created the session; it calls neither the responder nor make_phone_call
\* and does not increment ai_response_count.
C6_GoodbyeEnds ==
    [][\A c \in CallSids :
          TurnOf(last', c, GoodbyeTurns) =>
              /\ Len(response'.twiml) = 2
              /\ response'.twiml[1].verb = "Say"
              /\ response'.twiml[2].verb = "Hangup"
              /\ last'.ai_calls = 0
              /\ last'.dial_calls = 0
              /\ dials' = dials
              /\ c \in DOMAIN conversation_states'[1]
              /\ conversation_states'[1][c].ai_response_count =
                     IF c \in DOMAIN conversation_states[1]
                     THEN conversation_states[1][c].ai_response_count
                     ELSE 0]_vars

\* a goodbye on the turn that would have reached the escalation threshold
C6_Witness ==
    \E c \in CallSids :
        /\ TurnOf(last, c, GoodbyeTurns)
        /\ last.form.SpeechResult = SpeechBye
        /\ conversation_states[1][c].ai_response_count = EscalationThreshold - 1
        /\ response.twiml[2].verb = "Hangup"

\* C7: once a goodbye turn has been processed for a call, no later turn event
\* of the call gets a continuing or escalation response, calls the responder
\* or places an outbound call.
C7_EndedAbsorbing ==
    [][\A c \in CallSids :
          (TurnOf(last, c, GoodbyeTurns) /\ last'.handler = "gather" /\ last'.call_sid = c) =>
              /\ last'.ai_calls = 0
              /\ last'.dial_calls = 0
              /\ ~HasVerb(response'.twiml, "Dial")
              /\ response'.twiml[1].text \notin
                     {call_ai_chat_api(o) : o \in ResponderOutcomes}]_vars

\* C8: after a goodbye turn the store holds no session for the call.
C8_GoodbyeRemovesSession ==
    \A c \in CallSids :
        TurnOf(last, c, GoodbyeTurns) => c \notin DOMAIN conversation_states[last.worker]

\* C9: a status event removes the session of its call exactly when CallStatus
\* is completed, busy, no-answer, failed or canceled; any other status changes
\* nothing; a repeated terminal status, or one for a call without a session,
\* changes nothing; the answer is always the plain OK; no other call's
\* session is removed or altered.
C9_Terminal == {"completed", "busy", "no-answer", "failed", "canceled"}

C9_StatusCleanup ==
    [][last'.handler = "status" =>
          LET c == last'.call_sid
              before == conversation_states[last'.worker]
              after == conversation_states'[last'.worker]
          IN  /\ response' = PlainResponse("OK")
              /\ UNCHANGED <<objects, dials>>
              /\ \A w \in Workers \ {last'.worker} :
                     conversation_states'[w] = conversation_states[w]
              /\ IF ~last'.raised /\ last'.form.CallStatus \in C9_Terminal
                 THEN DOMAIN after = (DOMAIN before) \ {c}
                 ELSE DOMAIN after = DOMAIN before
              /\ \A d \in DOMAIN after : after[d] = before[d]]_vars

\* a terminal status removes one call's session while another call has one
C9_Witness ==
    /\ last.handler = "status"
    /\ last.form.CallStatus = "canceled"
    /\ last.existed
    /\ last.call_sid \notin DOMAIN conversation_states[1]
    /\ DOMAIN conversation_states[1] # {}

HandOffLine ==
    Say(<<"I'm now connecting you with your emergency contact who can provide additional support.">>)

\* an escalation-triggering turn of call c: a readable, accepted, non-goodbye
\* turn delivered when the session has at least EscalationThreshold - 1 replies
EscalatingTurn(c) ==
    /\ last'.handler = "gather"
    /\ last'.call_sid = c
    /\ last'.fault = "none"
    /\ last'.form \in PlainTurns
    /\ c \in DOMAIN conversation_states[1]
    /\ conversation_states[1][c].ai_response_count + 1 >= EscalationThreshold

\* C11: when the threshold is reached for a session whose emergency contact
\* number is absent (None or empty), neither TwilioHelper nor make_phone_call
\* is invoked, nothing is raised, and the response still holds the hand-off
\* line and the dial-conference directive for crisis_support_<callId>.
C11_NoNumberNoDial ==
    [][\A c \in CallSids :
          (EscalatingTurn(c) /\ ~Truthy(conversation_states[1][c].emergency_contact_number)) =>
              /\ dials' = dials
              /\ last'.dial_calls = 0
              /\ last'.twilio = "not_called"
              /\ \A i \in 1 .. Len(last'.steps) :
                     last'.steps[i] \notin {"TwilioHelper", "make_phone_call"}
              /\ ~last'.raised
              /\ response'.status_code = 200
              /\ Len(response'.twiml) = 3
              /\ response'.twiml[2] = HandOffLine
              /\ IsConference(response'.twiml[3], <<"crisis_support_", c>>)]_vars

\* the threshold reached on a session whose emergency number is the empty string
C11_Witness ==
    \E c \in CallSids :
        /\ last.handler = "gather"
        /\ last.call_sid = c
        /\ last.form \in PlainTurns
        /\ c \in DOMAIN conversation_states[1]
        /\ conversation_states[1][c].ai_response_count = EscalationThreshold
        /\ conversation_states[1][c].emergency_contact_number = ""
        /\ last.twilio = "not_called"
        /\ IsConference(response.twiml[3], <<"crisis_support_", c>>)

\* C12: on the escalation-triggering turn of a session with an emergency
\* number, the response document and the session written back are the ones
\* the turn and the responder's reply determine, whatever the outbound call
\* does (created, reported as failed, TwilioHelper() raising): nothing is
\* raised, no session is removed or altered otherwise, and make_phone_call
\* is called at most once.
C12_DialFailureInvisible ==
    [][\A c \in CallSids :
          (EscalatingTurn(c) /\ Truthy(conversation_states[1][c].emergency_contact_number)) =>
              LET before == conversation_states[1][c]
                  after == conversation_states'[1][c]
                  history == after.message_history
                  reply == history[Len(history)].content
              IN  /\ last'.twilio \in TwilioOutcomes
                  /\ ~last'.raised
                  /\ response' = XmlResponse(
                         << SayEnUS(reply), HandOffLine,
                            DialConference(<<"crisis_support_", c>>,
                                           <<"waitUrl=/voice/webhook/conference-wait">>) >>)
                  /\ DOMAIN conversation_states'[1] = DOMAIN conversation_states[1]
                  /\ \A d \in (DOMAIN conversation_states[1]) \ {c} :
                         conversation_states'[1][d] = conversation_states[1][d]
                  /\ after =
                         [before EXCEPT
                            !.message_history =
                                @ \o << [role |-> "user", content |-> strip(last'.form.SpeechResult)],
                                        [role |-> "assistant", content |-> reply] >>,
                            !.ai_response_count = @ + 1]
                  /\ last'.dial_calls <= 1
                  /\ Len(dials') <= Len(dials) + 1]_vars

\* the escalation turn returns the conference although Twilio refused the call
C12_Witness ==
    \E c \in CallSids :
        /\ last.handler = "gather"
        /\ last.call_sid = c
        /\ last.twilio = "api_error"
        /\ last.dial_calls = 1
        /\ ~dials[Len(dials)].success
        /\ c \in DOMAIN conversation_states[1]
        /\ response.twiml[2] = HandOffLine
        /\ IsConference(response.twiml[3], <<"crisis_support_", c>>)

\* a step a of a run comes before its step b
Precedes(steps, a, b) ==
    \E i, j \in 1 .. Len(steps) : i < j /\ steps[i] = a /\ steps[j] = b

\* C13: the response to the escalation turn is returned without waiting for
\* the outcome of the outbound call: the handler's return does not come after
\* the result of make_phone_call.
C13_ResponseDoesNotWaitForDial ==
    (last.handler = "gather" /\ last.returned /\ last.dial_calls = 1) =>
        ~Precedes(last.steps, "emergency_result", "return")

\* the callback URLs handed to the carrier so far
Callbacks == {dials[i].url.params : i \in 1 .. Len(dials)}

\* C14: the conference of the dial-conference directive returned to the
\* subject's call and the conference_name on the emergency contact's callback
\* URL are both crisis_support_<callId of the primary call>, and the
\* emergency-call handler requested with that callback joins that conference.
C14_SameConference ==
    [][/\ \A c \in CallSids :
            (last'.handler = "gather" /\ last'.call_sid = c /\ ~last'.raised
                /\ HasVerb(response'.twiml, "Dial")) =>
                /\ IsConference(response'.twiml[Len(response'.twiml)], <<"crisis_support_", c>>)
                /\ \A i \in (Len(dials) + 1) .. Len(dials') :
                       dials'[i].url.params.conference_name = <<"crisis_support_", c>>
       /\ (last'.handler = "emergency-call" /\ last'.query \in Callbacks) =>
              /\ ~last'.raised
              /\ Len(response'.twiml) = 2
              /\ IsConference(response'.twiml[2], last'.query.conference_name)
              /\ \E c \in CallSids :
                     last'.query.conference_name = <<"crisis_support_", c>>]_vars

\* the emergency contact's leg joins the conference the subject was put in
C14_Witness ==
    /\ last.handler = "emergency-call"
    /\ last.query \in Callbacks
    /\ dials[1].success
    /\ "CA1" \in DOMAIN conversation_states[1]
    /\ conversation_states[1]["CA1"].ai_response_count = EscalationThreshold
    /\ IsConference(response.twiml[2], <<"crisis_support_", "CA1">>)

\* C15: the emergency-call handler leaves the store (and everything else it
\* could reach) as it is, and its response is the briefing line followed by
\* the join-conference directive built from its own request alone, without
\* an error, whether or not the primary call still has a session.
C15_EmergencyLegIndependent ==
    [][last'.handler = "emergency-call" =>
          /\ conversation_states' = conversation_states
          /\ objects' = objects
          /\ dials' = dials
          /\ last'.fault = "none" =>
                LET q == last'.query
                    doc == response'.twiml
                IN  /\ ~last'.raised
                    /\ response'.status_code = 200
                    /\ Len(doc) = 2
                    /\ doc[1].verb = "Say"
                    /\ doc[1].text[2] = query_get(q.emergency_contact_name, "emergency contact")
                    /\ doc[1].text[4] = query_get(q.user_name, "the user")
                    /\ doc[1].text[6] = query_get(q.context, "crisis situation")
                    /\ IsConference(doc[2],
                           IF q.conference_name = NoneSeq
                           THEN <<"crisis_support_", last'.call_sid>>
                           ELSE q.conference_name)]_vars

\* the emergency contact answers after a terminal status removed the session
C15_Witness ==
    /\ last.handler = "emergency-call"
    /\ last.query \in Callbacks
    /\ last.query.conference_name = <<"crisis_support_", "CA1">>
    /\ "CA1" \notin DOMAIN conversation_states[1]
    /\ ~last.raised
    /\ IsConference(response.twiml[2], <<"crisis_support_", "CA1">>)

\* C16: an answer event for a call without a session creates exactly one
\* session, whose history is the spoken greeting as a single assistant entry,
\* whose ai_response_count is 0 and whose context fields equal the query
\* parameters, and returns the greeting followed by a listen directive.
C16_AnswerCreatesSession ==
    [][\A c \in CallSids :
          (last'.handler = "answer" /\ last'.call_sid = c /\ last'.fault = "none"
              /\ c \notin DOMAIN conversation_states[1]) =>
              LET q == last'.query
                  doc == response'.twiml
              IN  /\ ~last'.raised
                  /\ DOMAIN conversation_states'[1] = (DOMAIN conversation_states[1]) \cup {c}
                  /\ \A d \in DOMAIN conversation_states[1] :
                         conversation_states'[1][d] = conversation_states[1][d]
                  /\ objects'[1][c] = objects[1][c] + 1
                  /\ \A d \in CallSids \ {c} : objects'[1][d] = objects[1][d]
                  /\ conversation_states'[1][c].message_history =
                         << [role |-> "assistant", content |-> doc[1].text] >>
                  /\ conversation_states'[1][c].ai_response_count = 0
                  /\ conversation_states'[1][c].current_mood = q.mood
                  /\ conversation_states'[1][c].custom_prompt = q.custom_prompt
                  /\ conversation_states'[1][c].user_name = q.name
                  /\ conversation_states'[1][c].context = q.context
                  /\ conversation_states'[1][c].emergency_contact_number = q.emergency_number
                  /\ conversation_states'[1][c].emergency_contact_name = q.emergency_contact_name
                  /\ response'.status_code = 200
                  /\ doc[1].verb = "Say"
                  /\ doc[1].text[1] = "Hello "
                  /\ IsListen(doc[2])
                  /\ ~HasVerb(doc, "Dial")
                  /\ ~HasVerb(doc, "Hangup")]_vars

\* a second call is answered with its full context while the first has a session
C16_Witness ==
    \E c \in CallSids :
        /\ last.handler = "answer"
        /\ last.call_sid = c
        /\ ~last.existed
        /\ last.query.emergency_number = "+60123456789"
        /\ last.query.name = "Alex"
        /\ DOMAIN conversation_states[1] = CallSids
        /\ Len(conversation_states[1][c].message_history) = 1
        /\ conversation_states[1][c].emergency_contact_name = "Sam"
        /\ IsListen(response.twiml[2])

\* the context fields of a session
ContextOf(state) ==
    <<state.current_mood, state.custom_prompt, state.user_name, state.context,
      state.emergency_contact_number, state.emergency_contact_name>>

\* C17: once a turn has been accepted for a call, an answer event for the
\* same callId neither appends another greeting to the history nor
\* overwrites the context fields of the session.
C17_LateAnswerInert ==
    [][\A c \in CallSids :
          (last'.handler = "answer" /\ last'.call_sid = c /\ ~last'.raised
              /\ c \in DOMAIN conversation_states[1]
              /\ \E i \in 1 .. Len(conversation_states[1][c].message_history) :
                     conversation_states[1][c].message_history[i].role = "user") =>
              /\ conversation_states'[1][c].message_history =
                     conversation_states[1][c].message_history
              /\ ContextOf(conversation_states'[1][c]) = ContextOf(conversation_states[1][c])]_vars

\* the fixed apologetic strings of call_ai_chat_api
FallbackReplies ==
    { <<"I'm sorry, I'm having trouble processing that right now. Could you please try again?">>,
      <<"I'm sorry, I'm experiencing technical difficulties. Please try again later.">> }

\* C18: when the responder answers with a non-200 status, times out or
\* raises, the turn handler returns a normal turn document (reply then listen,
\* or reply, hand-off line and conference) whose reply is one of the fixed
\* apologetic strings; nothing is raised and call_ai_chat_api is called once.
C18_ResponderFailureFallback ==
    [][(last'.handler = "gather" /\ last'.ai \in {"status", "raise", "timeout"}) =>
          LET doc == response'.twiml
          IN  /\ ~last'.raised
              /\ response'.status_code = 200
              /\ doc[1].verb = "Say"
              /\ doc[1].text \in FallbackReplies
              /\ \/ IsListen(doc[2]) /\ ~HasVerb(doc, "Dial")
                 \/ doc[2] = HandOffLine /\ doc[3].verb = "Dial"
              /\ last'.ai_calls = 1
              /\ Cardinality({i \in 1 .. Len(last'.steps) :
                                 last'.steps[i] = "call_ai_chat_api"}) = 1]_vars

\* the responder answers 500 and the caller hears the fallback, then is listened to
C18_Witness ==
    /\ last.handler = "gather"
    /\ last.ai = "status"
    /\ response.twiml[1].text \in FallbackReplies
    /\ IsListen(response.twiml[2])
    /\ conversation_states[1][last.call_sid].ai_response_count = 1

\* C19: every webhook handler invocation returns a response, also when the
\* responder or the Twilio API never answers: no handler, and so no worker,
\* is left waiting in a call that never returns.
C19_EveryInvocationReturns ==
    /\ blocked = {}
    /\ last.handler # "none" => last.returned /\ response # NoResponse

\* a request body with to_number (E.164) and user_id, and of the other keys
\* at most initial_mood or custom_prompt
MinimalCallRequest(request) ==
    /\ is_e164(request.to_number)
    /\ request.user_id # None
    /\ request.name = None
    /\ request.emergency_number = NoneSeq
    /\ request.emergency_contact_name = None
    /\ request.context = None

\* C20: a request to initiate-ai-call that carries only to_number (valid
\* E.164) and user_id, optionally with initial_mood or custom_prompt, passes
\* validation and places an outbound call: 200 with a call_sid when Twilio
\* accepts the call.
C20_MinimalRequestPlacesCall ==
    (last.handler = "initiate-ai-call" /\ last.fault = "none"
        /\ MinimalCallRequest(last.query)) =>
        /\ response.status_code = 200
        /\ response.body = "success: true, call_sid"
        /\ last.dial_calls = 1
        /\ dials # <<>>

\* the indices of the user entries of a history
UserEntries(history) == {i \in 1 .. Len(history) : history[i].role = "user"}

\* C21: a turn event delivered a second time (the same request, right after
\* it was processed) is not counted again: the number of user entries,
\* ai_response_count and the outbound calls made stay as the first delivery
\* left them.
C21_DuplicateTurnCountedOnce ==
    [][\A c \in CallSids :
          (TurnOf(last, c, PlainTurns) /\ TurnOf(last', c, PlainTurns)
              /\ last'.form = last.form
              /\ c \in DOMAIN conversation_states[1]) =>
              /\ c \in DOMAIN conversation_states'[1]
              /\ conversation_states'[1][c].ai_response_count =
                     conversation_states[1][c].ai_response_count
              /\ Cardinality(UserEntries(conversation_states'[1][c].message_history)) =
                     Cardinality(UserEntries(conversation_states[1][c].message_history))
              /\ dials' = dials]_vars

\* every user entry that is not a goodbye is directly followed by an
\* assistant entry, and ai_response_count is the number of such user entries
TurnsPaired(state) ==
    LET history == state.message_history
        plain == {i \in UserEntries(history) : history[i].content = SpeechSad}
    IN  /\ \A i \in plain : i < Len(history) /\ history[i + 1].role = "assistant"
        /\ state.ai_response_count = Cardinality(plain)

C23_OtherCallsNotBlocked ==
    \A i, j \in 1 .. Len(inflight) :
        (/\ inflight[i].stage = "responder"
         /\ inflight[j].stage = "form"
         /\ inflight[i].request.call_sid # inflight[j].request.call_sid) =>
            ENABLED (Enter(j) \/ Finish(j))

\* the number of user entries of call c in a store
UserTurnCount(states, c) ==
    IF c \in DOMAIN states THEN Cardinality(UserEntries(states[c].message_history)) ELSE 0

\* C24: an accepted turn event (goodbye or not) adds exactly one user entry
\* to the history of its session; no other event changes the number of user
\* entries of a session that is in the store afterwards, so the number never
\* decreases while the session exists.
C24_OneUserEntryPerAcceptedTurn ==
    [][events' = events + 1 =>
          \A c \in CallSids :
              LET accepted == /\ last'.handler = "gather"
                              /\ last'.call_sid = c
                              /\ last'.fault = "none"
                              /\ last'.form \in (PlainTurns \cup GoodbyeTurns)
                  before == UserTurnCount(conversation_states[1], c)
                  after == UserTurnCount(conversation_states'[1], c)
              IN  IF accepted
                  THEN c \in DOMAIN conversation_states'[1] /\ after = before + 1
                  ELSE c \in DOMAIN conversation_states'[1] => after = before]_vars

\* a goodbye is counted as a user turn after a plain one
C24_Witness ==
    \E c \in CallSids :
        /\ TurnOf(last, c, GoodbyeTurns)
        /\ UserTurnCount(conversation_states[1], c) = 2
        /\ conversation_states[1][c].ai_response_count = 1

IsPrefix(s, t) == Len(s) <= Len(t) /\ SubSeq(t, 1, Len(s)) = s

\* C25: message_history is append-only: over every step the history of a
\* session that stays in the store is a prefix of its history afterwards.
C25_HistoryAppendOnly ==
    [][\A c \in (DOMAIN conversation_states[1]) \cap (DOMAIN conversation_states'[1]) :
          /\ conversation_states'[1][c].oid = conversation_states[1][c].oid
          /\ IsPrefix(conversation_states[1][c].message_history,
                      conversation_states'[1][c].message_history)]_vars

\* a late answer event adds its greeting after the turns already there
C25_Witness ==
    \E c \in CallSids :
        /\ last.handler = "answer"
        /\ last.call_sid = c
        /\ last.existed
        /\ Len(conversation_states[1][c].message_history) = 3
        /\ conversation_states[1][c].message_history[1].role = "user"
        /\ conversation_states[1][c].message_history[3].content = response.twiml[1].text

\* C26: after an attempt to call the emergency contact the session holds its
\* outcome: the escalation turn writes more to the session than the two
\* history entries and the counter.
C26_DialOutcomeRecorded ==
    [][\A c \in CallSids :
          (EscalatingTurn(c) /\ last'.dial_calls = 1) =>
              LET before == conversation_states[1][c]
                  after == conversation_states'[1][c]
                  history == after.message_history
              IN  after #
                     [before EXCEPT
                        !.message_history =
                            @ \o << history[Len(history) - 1], history[Len(history)] >>,
                        !.ai_response_count = @ + 1]]_vars

\* C27: the conference-wait handler changes no session and nothing else, its
\* document is determined by the retry parameter alone (absent or "0": hold
\* line, music, pause, line, redirect with retry=1; otherwise: hold line,
\* pause, line), and the same request delivered again gets the same document.
C27_ConferenceWaitIdempotent ==
    [][last'.handler = "conference-wait" =>
          /\ conversation_states' = conversation_states
          /\ objects' = objects
          /\ dials' = dials
          /\ last'.fault = "none" =>
                LET doc == response'.twiml
                IN  /\ response'.status_code = 200
                    /\ IF last'.query.retry \in {None, "0"}
                       THEN /\ Len(doc) = 5
                            /\ doc[1] = Say(<<"Please hold while we connect you with your emergency contact.">>)
                            /\ doc[2].verb = "Play"
                            /\ doc[5] = Redirect("/voice/webhook/conference-wait?retry=1")
                       ELSE /\ Len(doc) = 3
                            /\ doc[1] = Say(<<"Please continue to hold.">>)
                            /\ doc[2].verb = "Pause"
                            /\ ~HasVerb(doc, "Redirect")
          /\ (last.handler = "conference-wait" /\ last.fault = "none"
                 /\ last'.fault = "none" /\ last'.query = last.query)
                => response' = response]_vars

\* the retry request polled again while a session is in the store
C27_Witness ==
    /\ last.handler = "conference-wait"
    /\ last.query.retry = "1"
    /\ last.existed
    /\ events = 3
    /\ Len(response.twiml) = 3
    /\ conversation_states[1][last.call_sid].message_history # <<>>

\* C28: every response of the turn handler that is not its error document
\* holds exactly one directive among listen (Gather), dial-conference and
\* hangup.
C28_ExactlyOneContinuation ==
    (last.handler = "gather" /\ ~last.raised /\ last.returned) =>
        Cardinality({i \in 1 .. Len(response.twiml) :
                        response.twiml[i].verb \in {"Gather", "Dial", "Hangup"}}) = 1

\* the transfer document: the conference and no listen
C28_Witness ==
    /\ last.handler = "gather"
    /\ ~last.raised
    /\ Len(response.twiml) = 3
    /\ response.twiml[3].verb = "Dial"
    /\ ~HasVerb(response.twiml, "Gather")
    /\ ~HasVerb(response.twiml, "Hangup")

ClarificationLine ==
    Say(<<"I didn't quite catch that. Could you please speak a bit more clearly?">>)

\* C29: a readable turn event whose Confidence is a number is answered with
\* the clarification, and leaves the history alone, exactly when its trimmed
\* SpeechResult is empty or its Confidence (0 when the field is missing) is
\* below 3/10; speech with Confidence 0.3 is accepted, speech without a
\* Confidence field is rejected.
C29_RejectedExactlyBelowThreshold ==
    [][\A c \in CallSids :
          (last'.handler = "gather" /\ last'.call_sid = c /\ last'.fault = "none"
              /\ last'.form.Confidence # ConfGarbled) =>
              LET text == strip(IF last'.form.SpeechResult = NoneSeq
                                THEN <<>> ELSE last'.form.SpeechResult)
                  value == float(IF last'.form.Confidence = NoneSeq
                                 THEN <<"0">> ELSE last'.form.Confidence)
                  low == text = <<>> \/ 10 * value.num < 3 * value.den
                  rejected == /\ response'.twiml[1] = ClarificationLine
                              /\ UserTurnCount(conversation_states'[1], c) =
                                     UserTurnCount(conversation_states[1], c)
                  accepted == /\ response'.twiml[1] # ClarificationLine
                              /\ UserTurnCount(conversation_states'[1], c) =
                                     UserTurnCount(conversation_states[1], c) + 1
              IN  /\ ~last'.raised
                  /\ IF low THEN rejected ELSE accepted
                  /\ last'.form = Form(SpeechSad, Conf03, None) => accepted
                  /\ last'.form = Form(SpeechSad, Conf029, None) => rejected
                  /\ last'.form = Form(SpeechSad, NoneSeq, None) => rejected
                  /\ last'.form = Form(SpeechBlank, Conf09, None) => rejected]_vars

\* speech with Confidence exactly 0.3 has been accepted and answered
C29_Witness ==
    \E c \in CallSids :
        /\ last.handler = "gather"
        /\ last.call_sid = c
        /\ last.form = Form(SpeechSad, Conf03, None)
        /\ last.ai_calls = 1
        /\ UserTurnCount(conversation_states[1], c) = 1
        /\ IsListen(response.twiml[2])

\* C30: in every document of the answer and turn handlers that listens, the
\* listen directive is followed by a spoken fallback line and then by a
\* redirect to the turn action.
C30_ListenFallsBackToTurnAction ==
    (last.handler \in {"answer", "gather"} /\ ~last.raised /\ last.returned) =>
        \A i \in 1 .. Len(response.twiml) :
            IsListen(response.twiml[i]) =>
                /\ Len(response.twiml) = i + 2
                /\ response.twiml[i + 1].verb = "Say"
                /\ response.twiml[i + 2] = Redirect("/voice/webhook/gather")

\* C31: with the shipped deployment (two worker processes), every turn event
\* of a call observes the session the call's answer event created, whichever
\* worker receives it: a session of the call held by any worker when the turn
\* arrives is the session the turn's handler finds in its own worker.
C31_TurnObservesAnswerSession ==
    [][ \A c \in CallSids :
          (events' = events + 1 /\ last'.handler = "gather" /\ last'.call_sid = c
              /\ ~last'.raised)
          => \A v \in Workers :
                c \in DOMAIN conversation_states[v]
                => /\ c \in DOMAIN conversation_states[last'.worker]
                   /\ conversation_states[last'.worker][c] = conversation_states[v][c]
      ]_vars

\* C32: after a terminal status event has removed the session of a call, a
\* late or retried turn event of the same call does not create a new session
\* for it: the store holds sessions only for calls that have not received a
\* terminal status.
C32_NoSessionAfterTerminalStatus ==
    [][\A c \in CallSids :
          (last.handler = "status" /\ last.call_sid = c /\ ~last.raised
              /\ last.existed /\ last.form.CallStatus \in C9_Terminal
              /\ last'.handler = "gather" /\ last'.call_sid = c
              /\ events' = events + 1) =>
              c \notin DOMAIN conversation_states'[1]]_vars

\* the session a turn of call c starts from: the one in the store, or the one
\* get_or_create_conversation_state constructs
SessionBefore(c) ==
    IF c \in DOMAIN conversation_states[1] THEN conversation_states[1][c]
    ELSE ConversationState(c, objects[1][c] + 1)

\* C33: a turn whose responder call fails (an error status or an exception)
\* counts like a successful one: its user entry and the fallback string, as
\* an assistant entry, are appended to the history, ai_response_count grows
\* by one, and the response hands off exactly when the count has reached the
\* threshold, so the second of two failing turns escalates.
C33_FailedTurnCounts ==
    [][\A c \in CallSids :
          (TurnOf(last', c, PlainTurns) /\ events' = events + 1
              /\ last'.ai \in {"status", "raise"}) =>
              LET before == SessionBefore(c)
                  after == conversation_states'[1][c]
                  reply == response'.twiml[1].text
              IN  /\ reply \in FallbackReplies
                  /\ after.message_history = before.message_history \o
                         << [role |-> "user", content |-> strip(last'.form.SpeechResult)],
                            [role |-> "assistant", content |-> reply] >>
                  /\ after.ai_response_count = before.ai_response_count + 1
                  /\ (after.ai_response_count >= EscalationThreshold)
                         = (\E i \in 1 .. Len(response'.twiml) :
                               IsConference(response'.twiml[i], conference_name(c)))
                  /\ (before.ai_response_count = EscalationThreshold - 1
                         => HasVerb(response'.twiml, "Dial"))]_vars

\* the second of two turns of an answered call whose responder calls both
\* failed: the history holds the greeting and two fallback replies, the
\* count is at the threshold and the response joins the conference
C33_Witness ==
    /\ TurnOf(last, "CA1", PlainTurns)
    /\ last.ai \in {"status", "raise"}
    /\ "CA1" \in DOMAIN conversation_states[1]
    /\ LET state == conversation_states[1]["CA1"]
           history == state.message_history
       IN  /\ state.ai_response_count = EscalationThreshold
           /\ Len(history) = 5
           /\ history[3].content \in FallbackReplies
           /\ history[5].content \in FallbackReplies
           /\ \E i \in 1 .. Len(response.twiml) :
                 IsConference(response.twiml[i], conference_name("CA1"))

\* C34: an answer, turn or status event of one call leaves every other
\* call's session as it was (history, counter, context and every other
\* field) and neither adds nor removes another call's store entry.
C34_OtherCallsUntouched ==
    [][(events' = events + 1 /\ last'.handler \in {"answer", "gather", "status"}) =>
          \A d \in CallSids \ {last'.call_sid} :
              /\ (d \in DOMAIN conversation_states'[1]) = (d \in DOMAIN conversation_states[1])
              /\ d \in DOMAIN conversation_states[1] =>
                     conversation_states'[1][d] = conversation_states[1][d]]_vars

\* a turn of CA1 has been answered and counted, or a terminal status has
\* removed CA1's session, while CA2 holds the session its answer event made
C34_Witness ==
    /\ "CA2" \in DOMAIN conversation_states[1]
    /\ conversation_states[1]["CA2"].user_id = "u1"
    /\ Len(conversation_states[1]["CA2"].message_history) = 1
    /\ \/ /\ TurnOf(last, "CA1", PlainTurns)
          /\ conversation_states[1]["CA1"].ai_response_count = 1
       \/ /\ last.handler = "status" /\ last.call_sid = "CA1" /\ last.existed
          /\ last.form.CallStatus \in C9_Terminal
          /\ "CA1" \notin DOMAIN conversation_states[1]

\* the value a field of the request gives the session: the value itself, or
\* None for one the request left out or left empty
Given(x) == IF Truthy(x) THEN x ELSE None

\* a call placed by a request and answered next
PlacedThenAnswered ==
    /\ last.handler = "initiate-ai-call"
    /\ last.twilio = "created"
    /\ last'.handler = "answer"
    /\ events' = events + 1

\* C35 as stated: after the answer event of a placed call the session's
\* user_name, emergency_contact_number, emergency_contact_name, context,
\* custom_prompt and current_mood equal the values given at initiation.
C35_AsStated ==
    [][PlacedThenAnswered =>
          LET request == last.query
              state == conversation_states'[1][last'.call_sid]
          IN  /\ state.user_name = request.name
              /\ state.emergency_contact_number = str_of(request.emergency_number)
              /\ state.emergency_contact_name = request.emergency_contact_name
              /\ state.context = request.context
              /\ state.custom_prompt = request.custom_prompt
              /\ state.current_mood = request.initial_mood]_vars

\* C35: the context given to initiate-ai-call travels in the answer webhook
\* URL under the parameter names the answer handler reads, so after the
\* answer event of the placed call every field of the session holds the
\* non-empty value given for it at initiation; a value left out or given as
\* the empty string leaves the field None.
C35_ContextCarriedToSession ==
    [][PlacedThenAnswered =>
          LET request == last.query
              state == conversation_states'[1][last'.call_sid]
          IN  /\ last'.query = query_params(webhook_query_string(webhook_params(request)))
              /\ state.user_name = Given(request.name)
              /\ state.emergency_contact_number = str_of(request.emergency_number)
              /\ state.emergency_contact_name = Given(request.emergency_contact_name)
              /\ state.context = Given(request.context)
              /\ state.custom_prompt = Given(request.custom_prompt)
              /\ state.current_mood = Given(request.initial_mood)]_vars

\* a call placed with texts the URL must escape has been answered: the
\* session holds them as they were given
C35_Witness ==
    /\ last.handler = "answer"
    /\ dials # <<>>
    /\ dials[Len(dials)].url.params.name = "Al & Bo"
    /\ last.call_sid \in DOMAIN conversation_states[1]
    /\ LET state == conversation_states[1][last.call_sid]
       IN  /\ state.user_name = "Al & Bo"
           /\ state.context = "50% + more=?"
           /\ state.emergency_contact_number = "+60123456789"
           /\ state.current_mood = "sad"

\* C36: when make_phone_call reports failure, POST /ai-calling/initiate-ai-call
\* and POST /phone/call answer with status 400, and GET
\* /phone/call/{call_sid}/status answers 404 when the lookup fails; the
\* statuses are not turned into 500.
C36_FailureStatusesReachClient ==
    /\ (last.handler \in {"initiate-ai-call", "phone-call"} /\ last.twilio = "api_error")
           => response.status_code = 400
    /\ (last.handler = "call-status" /\ last.twilio = "api_error")
           => response.status_code = 404

\* the three greetings, by the part that tells them apart
CrisisGreeting(name) ==
    <<"Hello ", name, "! I'm Ruby, your AI companion. I'm here to provide immediate support and listen to you. How are you feeling right now?">>

MoodGreeting(name, mood) ==
    <<"Hello ", name, "! I'm Ruby, your AI companion. I understand you might be feeling ", mood, " today. I'm here to listen and support you. How are you doing?">>

DefaultGreeting(name) ==
    <<"Hello ", name, "! I'm Ruby, your AI companion. I'm here to listen and chat with you. How are you feeling today?">>

\* C37: the greeting spoken at answer is the crisis-support variant when a
\* custom prompt is present (not empty), otherwise the mood variant when a
\* mood is present and is not 'neutral', otherwise the default variant; it
\* addresses the user by the supplied name, or as Johnny when none (or an
\* empty one) was supplied; the greeting appended to the history is the one
\* spoken.
C37_GreetingByPriority ==
    (last.handler = "answer" /\ ~last.raised) =>
        LET q == last.query
            name == IF q.name \in {None, ""} THEN "Johnny" ELSE q.name
            history == conversation_states[1][last.call_sid].message_history
            spoken == response.twiml[1]
        IN  /\ spoken.verb = "Say"
            /\ history[Len(history)] = [role |-> "assistant", content |-> spoken.text]
            /\ q.custom_prompt \notin {None, ""} => spoken.text = CrisisGreeting(name)
            /\ (q.custom_prompt \in {None, ""} /\ q.mood \notin {None, "", "neutral"})
                   => spoken.text = MoodGreeting(name, q.mood)
            /\ (q.custom_prompt \in {None, ""} /\ q.mood \in {None, "", "neutral"})
                   => spoken.text = DefaultGreeting(name)

\* a call answered with both a custom prompt and a mood and without a name:
\* the crisis-support greeting for Johnny is spoken and recorded
C37_Witness ==
    /\ last.handler = "answer"
    /\ ~last.raised
    /\ last.query.custom_prompt = "be gentle"
    /\ last.query.mood = "sad"
    /\ last.query.name = None
    /\ response.twiml[1].text = CrisisGreeting("Johnny")
    /\ conversation_states[1][last.call_sid].message_history[1].content
           = CrisisGreeting("Johnny")

\* the assistant entries the turn handler appended: those that are not a
\* greeting of the answer handler
ReplyEntries(history) ==
    {i \in 1 .. Len(history) :
        history[i].role = "assistant" /\ history[i].content[1] # "Hello "}

\* C38: for every session in the store, ai_response_count is the number of
\* assistant entries of message_history that the turn handler appended
\* (assistant entries other than greetings) and is at most the number of
\* user entries.
C38_CountMatchesReplies ==
    \A w \in Workers : \A c \in DOMAIN conversation_states[w] :
        LET state == conversation_states[w][c]
        IN  /\ state.ai_response_count = Cardinality(ReplyEntries(state.message_history))
            /\ state.ai_response_count <= Cardinality(UserEntries(state.message_history))

\* a session answered twice, with one turn answered and a goodbye: two
\* greetings, one reply, two user entries
C38_Witness ==
    /\ "CA1" \in DOMAIN conversation_states[1]
    /\ LET state == conversation_states[1]["CA1"]
           history == state.message_history
       IN  /\ state.ai_response_count = 1
           /\ Cardinality(ReplyEntries(history)) = 1
           /\ Cardinality(UserEntries(history)) = 2
           /\ Len(history) = 5

====
